---- MODULE Spec2Model ----
(***************************************************************************)
(* Minesible web manager (webapp/api/index.js): grouping of Spacelift      *)
(* stacks into server groups, aggregate status, and the DELETE handler     *)
(* that tears a server down.                                               *)
(*                                                                         *)
(* Stack names are sequences of one-character strings, so that the         *)
(* regular expressions and substring tests of the source are computed on   *)
(* the characters, as the source computes them.                            *)
(***************************************************************************)
EXTENDS Integers, Sequences, FiniteSets, TLC

(***************************************************************************)
(* Characters and JavaScript string primitives                             *)
(***************************************************************************)
UpperChars == <<"A","B","C","D","E","F","G","H","I","J","K","L","M",
                "N","O","P","Q","R","S","T","U","V","W","X","Y","Z">>

LowerChars == <<"a","b","c","d","e","f","g","h","i","j","k","l","m",
                "n","o","p","q","r","s","t","u","v","w","x","y","z">>

DigitChars == <<"0","1","2","3","4","5","6","7","8","9">>

PunctChars == <<"_","-">>

Range(f) == { f[i] : i \in DOMAIN f }

IndexIn(seq, c) == CHOOSE i \in DOMAIN seq : seq[i] = c

SetMin(S) == CHOOSE x \in S : \A y \in S : x <= y

UpperSet == Range(UpperChars)

LowerSet == Range(LowerChars)

AlnumSet == UpperSet \cup LowerSet \cup Range(DigitChars)

\* [A-Za-z0-9]
isAlnum(c) == c \in AlnumSet

LowerOfUpper == [ c \in UpperSet |-> LowerChars[IndexIn(UpperChars, c)] ]

\* String.prototype.toLowerCase, one character
toLowerChar(c) == IF c \in UpperSet THEN LowerOfUpper[c] ELSE c

\* String.prototype.toLowerCase
toLowerCase(s) == [i \in 1..Len(s) |-> toLowerChar(s[i])]

\* s has p at position i (1-based)
StartsAt(s, p, i) ==
    /\ i >= 1
    /\ i + Len(p) - 1 <= Len(s)
    /\ \A k \in 1..Len(p) : s[i + k - 1] = p[k]

\* String.prototype.includes
includes(s, p) == \E i \in 1..(Len(s) - Len(p) + 1) : StartsAt(s, p, i)

\* s.endsWith(p)
endsWith(s, p) == Len(p) <= Len(s) /\ StartsAt(s, p, Len(s) - Len(p) + 1)

\* the characters of s from position i to the end
From(s, i) == SubSeq(s, i, Len(s))

\* length of the longest suffix of s made of [A-Za-z0-9] only
TrailingAlnumLen(s) ==
    IF \A i \in 1..Len(s) : isAlnum(s[i]) THEN Len(s)
    ELSE Len(s) - (CHOOSE i \in 1..Len(s) :
                      /\ ~isAlnum(s[i])
                      /\ \A j \in (i+1)..Len(s) : isAlnum(s[j]))

\* s.replace(/[^A-Za-z0-9]/g, '')
stripNonAlnum(s) == SelectSeq(s, isAlnum)

\* s.split('-').pop()
splitPop(s) ==
    IF \A i \in 1..Len(s) : s[i] # "-" THEN s
    ELSE From(s, 1 + (CHOOSE i \in 1..Len(s) :
                         /\ s[i] = "-"
                         /\ \A j \in (i+1)..Len(s) : s[j] # "-"))

(***************************************************************************)
(* The literals of the source                                              *)
(***************************************************************************)
sOpentofu  == <<"O","p","e","n","t","o","f","u">>
sAnsible   == <<"A","n","s","i","b","l","e">>
sopentofu  == <<"o","p","e","n","t","o","f","u">>
sansible   == <<"a","n","s","i","b","l","e">>
sBlueprintDash == <<"B","l","u","e","p","r","i","n","t","-">>
sManualDash == <<"M","a","n","u","a","l","-">>
sIndividualDash == <<"I","n","d","i","v","i","d","u","a","l","-">>
sMinesibleAnsibleBlueprintDash ==
    <<"M","i","n","e","s","i","b","l","e","-">> \o sAnsible \o <<"-">> \o sBlueprintDash
sMinesibleOpentofuBlueprintDash ==
    <<"M","i","n","e","s","i","b","l","e","-">> \o sOpentofu \o <<"-">> \o sBlueprintDash

(***************************************************************************)
(* The two regular expressions of the grouping                             *)
(***************************************************************************)
\* name.match(/Blueprint-([A-Za-z0-9]+)$/): the token is the trailing
\* alphanumeric run, which "Blueprint-" must immediately precede
blueprintMatch(name) ==
    LET t == TrailingAlnumLen(name)
    IN  /\ t >= 1
        /\ endsWith(SubSeq(name, 1, Len(name) - t), sBlueprintDash)

\* capture group 1 of that match
blueprintToken(name) == From(name, Len(name) - TrailingAlnumLen(name) + 1)

\* the rest of the name from its hyphen at i matches -(Opentofu|Ansible)(-.*)?$
\* with the i flag; the result is the length of the role word, 0 for no match
RoleAt(name, i) ==
    LET after(w) == i + Len(w) + 1
        word(w) == /\ i + Len(w) <= Len(name)
                   /\ \A k \in 1..Len(w) : toLowerChar(name[i + k]) = w[k]
                   /\ (after(w) > Len(name) \/ name[after(w)] = "-")
    IN  IF name[i] # "-" THEN 0
        ELSE IF word(sopentofu) THEN Len(sopentofu)
        ELSE IF word(sansible) THEN Len(sansible)
        ELSE 0

\* name.match(/^(.*?)-(Opentofu|Ansible)(-.*)?$/i)
manualMatch(name) == \E i \in 1..Len(name) : RoleAt(name, i) > 0

\* the lazy (.*?) stops at the first hyphen from which the rest matches
ManualAt(name) == SetMin({ i \in 1..Len(name) : RoleAt(name, i) > 0 })

\* capture group 1
manualBase(name) == SubSeq(name, 1, ManualAt(name) - 1)

\* capture group 3, '' when it did not take part
manualSuffix(name) ==
    LET i == ManualAt(name) IN From(name, i + RoleAt(name, i) + 1)

(***************************************************************************)
(* String.prototype.localeCompare on the characters above: the root        *)
(* collation compares on primary weights first (punctuation before digits  *)
(* before letters, letters without regard to case), the shorter string     *)
(* first when one is a prefix of the other, and breaks a primary tie at    *)
(* the first differing character, lower case before upper case.            *)
(***************************************************************************)
PrimaryWeightOf ==
    [ c \in Range(PunctChars) \cup AlnumSet |->
        IF c \in Range(PunctChars) THEN IndexIn(PunctChars, c)
        ELSE IF c \in Range(DigitChars) THEN Len(PunctChars) + IndexIn(DigitChars, c)
        ELSE Len(PunctChars) + Len(DigitChars) + IndexIn(LowerChars, toLowerChar(c)) ]

PrimaryWeight(c) == PrimaryWeightOf[c]

localeCompare(a, b) ==
    LET n == IF Len(a) < Len(b) THEN Len(a) ELSE Len(b)
        dp == { i \in 1..n : PrimaryWeight(a[i]) # PrimaryWeight(b[i]) }
        dt == { i \in 1..n : a[i] # b[i] }
    IN  IF dp # {}
        THEN (IF PrimaryWeight(a[SetMin(dp)]) < PrimaryWeight(b[SetMin(dp)]) THEN -1 ELSE 1)
        ELSE IF Len(a) # Len(b) THEN (IF Len(a) < Len(b) THEN -1 ELSE 1)
        ELSE IF dt # {}
        THEN (IF a[SetMin(dt)] \in LowerSet THEN -1 ELSE 1)
        ELSE 0

(***************************************************************************)
(* Aggregate status                                                        *)
(***************************************************************************)
\* A wrong precedence: the Missing test moved in front of the APPLYING test.
determineOverallStatus_MissingFirst(opentofuStatus, ansibleStatus) ==
    IF opentofuStatus = "FINISHED" /\ ansibleStatus = "FINISHED" THEN "Ready"
    ELSE IF opentofuStatus = "FAILED" \/ ansibleStatus = "FAILED" THEN "Failed"
    ELSE IF opentofuStatus = "UNCONFIRMED" \/ ansibleStatus = "UNCONFIRMED"
         THEN "Pending Confirmation"
    ELSE IF opentofuStatus = "PLANNING" \/ ansibleStatus = "PLANNING" THEN "Planning"
    ELSE IF opentofuStatus = "Missing" \/ ansibleStatus = "Missing" THEN "Incomplete"
    ELSE IF opentofuStatus = "APPLYING" \/ ansibleStatus = "APPLYING" THEN "Deploying"
    ELSE "In Progress"

determineOverallStatus(opentofuStatus, ansibleStatus) ==
    IF opentofuStatus = "FINISHED" /\ ansibleStatus = "FINISHED" THEN "Ready"
    ELSE IF opentofuStatus = "FAILED" \/ ansibleStatus = "FAILED" THEN "Failed"
    ELSE IF opentofuStatus = "UNCONFIRMED" \/ ansibleStatus = "UNCONFIRMED"
         THEN "Pending Confirmation"
    ELSE IF opentofuStatus = "PLANNING" \/ ansibleStatus = "PLANNING" THEN "Planning"
    ELSE IF opentofuStatus = "APPLYING" \/ ansibleStatus = "APPLYING" THEN "Deploying"
    ELSE IF opentofuStatus = "Missing" \/ ansibleStatus = "Missing" THEN "Incomplete"
    ELSE "In Progress"

(***************************************************************************)
(* groupStacksByBlueprint                                                  *)
(*                                                                         *)
(* A stack is [id, name, state, createdAt, outputs, labels]; outputs is    *)
(* the list of [id, value] pairs of the API, and blueprintInputs, which    *)
(* only test.js reads, the list of [key, value] pairs of the inputs the    *)
(* stack was declared with.  A JavaScript null is "null"                   *)
(* for a string, 0 for a timestamp or an id, and the empty sequence for an *)
(* object or an array: a member of a group is <<>> or                      *)
(* <<[id, name, status]>>, the labels of a stack are <<>> or <<set>>.      *)
(***************************************************************************)
Null == "null"

\* stack.outputs.reduce((acc, o) => { acc[o.id] = o.value; return acc }, {})[key],
\* "" standing for undefined: a later pair of the same id wins
OutputValue(outputs, key) ==
    LET at == { i \in 1..Len(outputs) : outputs[i].id = key }
    IN  IF at = {} THEN "" ELSE outputs[CHOOSE i \in at : \A j \in at : j <= i].value

\* a || b on strings
OrElse(a, b) == IF a # "" /\ a # Null THEN a ELSE b


\* stack.blueprintInputs.reduce((acc, i) => { acc[i.key] = i.value; return acc }, {})[key]
\* of test.js, "" standing for undefined
InputValue(inputs, key) ==
    LET at == { i \in 1..Len(inputs) : inputs[i].key = key }
    IN  IF at = {} THEN "" ELSE inputs[CHOOSE i \in at : \A j \in at : j <= i].value

\* test.js 276-291: the fields its groupStacksByBlueprint takes from an opentofu stack
PassThroughOfTest(stack) ==
    [ ip |-> OrElse(OutputValue(stack.outputs, "ec2_ip"), Null),
      instanceType |->
          OrElse(InputValue(stack.blueprintInputs, "instance_type"),
                 OrElse(OutputValue(stack.outputs, "instance_type"), "unknown")),
      maxPlayers |->
          OrElse(InputValue(stack.blueprintInputs, "max_players"),
                 OrElse(OutputValue(stack.outputs, "max_players"), "unknown")) ]


\* lines 445-466, as if the manual pattern were tried before the Blueprint pattern
GroupKeyOf_ManualFirst(name) ==
    IF manualMatch(name) THEN stripNonAlnum(manualBase(name) \o manualSuffix(name))
    ELSE IF blueprintMatch(name) THEN blueprintToken(name)
    ELSE stripNonAlnum(name)

GroupKeyOf(name) ==
    IF blueprintMatch(name) THEN blueprintToken(name)
    ELSE IF manualMatch(name) THEN stripNonAlnum(manualBase(name) \o manualSuffix(name))
    ELSE stripNonAlnum(name)

GroupNameOf(name) ==
    IF blueprintMatch(name) THEN sBlueprintDash \o blueprintToken(name)
    ELSE IF manualMatch(name) THEN sManualDash \o manualBase(name) \o manualSuffix(name)
    ELSE sIndividualDash \o name

IsManualOf(name) == ~blueprintMatch(name)

NewGroup(name) ==
    [ id |-> GroupKeyOf(name), name |-> GroupNameOf(name), status |-> "Unknown",
      ip |-> Null, instanceType |-> "unknown", maxPlayers |-> "unknown",
      created |-> 0, opentofu |-> <<>>, ansible |-> <<>>,
      isManual |-> IsManualOf(name) ]

Member(stack) == << [ id |-> stack.id, name |-> stack.name, status |-> stack.state ] >>

MemberStatus(m) == IF m = <<>> THEN "Missing" ELSE OrElse(m[1].status, "Missing")


\* lines 485-528, as if created were set only while it is still null (the guard of
\* line 511 on all three branches)
Attach_KeepsCreated(g, stack) ==
    LET first == IF g.created = 0 THEN stack.createdAt ELSE g.created
        g1 ==
          IF includes(toLowerCase(stack.name), sopentofu)
          THEN [ g EXCEPT !.opentofu = Member(stack),
                          !.ip = OrElse(OutputValue(stack.outputs, "ec2_ip"), Null),
                          !.instanceType =
                              OrElse(OutputValue(stack.outputs, "instance_type"), "unknown"),
                          !.maxPlayers =
                              OrElse(OutputValue(stack.outputs, "max_players"), "unknown"),
                          !.created = first ]
          ELSE IF includes(toLowerCase(stack.name), sansible)
          THEN [ g EXCEPT !.ansible = Member(stack), !.created = first ]
          ELSE [ g EXCEPT !.opentofu = Member(stack), !.created = first ]
    IN  [ g1 EXCEPT !.status =
              determineOverallStatus(MemberStatus(g1.opentofu), MemberStatus(g1.ansible)) ]


\* lines 485-528, as if the status were computed before the stack is attached
Attach_StaleStatus(g, stack) ==
    LET g1 ==
          IF includes(toLowerCase(stack.name), sopentofu)
          THEN [ g EXCEPT !.opentofu = Member(stack),
                          !.ip = OrElse(OutputValue(stack.outputs, "ec2_ip"), Null),
                          !.instanceType =
                              OrElse(OutputValue(stack.outputs, "instance_type"), "unknown"),
                          !.maxPlayers =
                              OrElse(OutputValue(stack.outputs, "max_players"), "unknown"),
                          !.created = stack.createdAt ]
          ELSE IF includes(toLowerCase(stack.name), sansible)
          THEN [ g EXCEPT !.ansible = Member(stack),
                          !.created = IF g.created = 0 THEN stack.createdAt ELSE g.created ]
          ELSE [ g EXCEPT !.opentofu = Member(stack),
                          !.created = stack.createdAt ]
    IN  [ g1 EXCEPT !.status =
              IF g.opentofu = <<>> /\ g.ansible = <<>> THEN "Unknown"
              ELSE determineOverallStatus(MemberStatus(g.opentofu), MemberStatus(g.ansible)) ]

\* lines 485-528: attach the stack to its group and recompute the status
Attach(g, stack) ==
    LET g1 ==
          IF includes(toLowerCase(stack.name), sopentofu)
          THEN [ g EXCEPT !.opentofu = Member(stack),
                          !.ip = OrElse(OutputValue(stack.outputs, "ec2_ip"), Null),
                          !.instanceType =
                              OrElse(OutputValue(stack.outputs, "instance_type"), "unknown"),
                          !.maxPlayers =
                              OrElse(OutputValue(stack.outputs, "max_players"), "unknown"),
                          !.created = stack.createdAt ]
          ELSE IF includes(toLowerCase(stack.name), sansible)
          THEN [ g EXCEPT !.ansible = Member(stack),
                          !.created = IF g.created = 0 THEN stack.createdAt ELSE g.created ]
          ELSE [ g EXCEPT !.opentofu = Member(stack),
                          !.created = stack.createdAt ]
    IN  [ g1 EXCEPT !.status =
              determineOverallStatus(MemberStatus(g1.opentofu), MemberStatus(g1.ansible)) ]

\* one turn of stacks.forEach: groups is the object, in insertion order
GroupStep(groups, stack) ==
    LET key == GroupKeyOf(stack.name)
        at  == { i \in 1..Len(groups) : groups[i].id = key }
    IN  IF key = <<>> THEN groups
        ELSE IF at = {}
        THEN Append(groups, Attach(NewGroup(stack.name), stack))
        ELSE [ groups EXCEPT ![CHOOSE i \in at : TRUE] = Attach(@, stack) ]

RECURSIVE GroupFold(_, _)
GroupFold(stacks, n) ==
    IF n = 0 THEN <<>> ELSE GroupStep(GroupFold(stacks, n - 1), stacks[n])

\* the comparator of groupArray.sort
GroupCompare(a, b) ==
    IF a.isManual /\ ~b.isManual THEN 1
    ELSE IF ~a.isManual /\ b.isManual THEN -1
    ELSE localeCompare(a.name, b.name)

\* Array.prototype.sort is stable: g goes behind every element not greater than it
InsertSorted(sorted, g) ==
    LET k == Cardinality({ i \in 1..Len(sorted) : GroupCompare(sorted[i], g) <= 0 })
    IN  SubSeq(sorted, 1, k) \o <<g>> \o SubSeq(sorted, k + 1, Len(sorted))

RECURSIVE SortGroups(_, _)
SortGroups(groups, n) ==
    IF n = 0 THEN <<>> ELSE InsertSorted(SortGroups(groups, n - 1), groups[n])

groupStacksByBlueprint(stacks) ==
    LET groups == GroupFold(stacks, Len(stacks))
    IN  SortGroups(groups, Len(groups))

(***************************************************************************)
(* State                                                                   *)
(***************************************************************************)
VARIABLES
    \* determineOverallStatus applied to a pair of statuses
    stOpentofu, stAnsible, stResult, stDone,
    \* groupStacksByBlueprint applied to a list of stacks
    gStacks, gGroups, gDone,
    \* the orchestrator: its stacks, in the order the stacks query lists them,
    \* and the save-world task a taskTrigger has started ("none", "running", "done")
    stacks, taskState,
    \* one DELETE /api/servers/:serverId request and the locals of its handler
    serverId, saveWorld, pc, calls, destroyResults, statusUpdates, saveMessage,
    stackResult, ansibleStack, openTofuStack, response,
    \* a second DELETE request in flight at the same time: the locals of the handler
    \* that is not running at the moment (the empty sequence when there is no second
    \* request), and which of the two requests the locals above belong to
    other, running

stVars == <<stOpentofu, stAnsible, stResult, stDone>>
gVars  == <<gStacks, gGroups, gDone>>
tdVars == <<stacks, taskState, serverId, saveWorld, pc, calls, destroyResults,
            statusUpdates, saveMessage, stackResult, ansibleStack, openTofuStack,
            response, other, running>>

VARIABLES
    \* the cache of getJWTToken (0 for null), the clock in units of TimeUnit, and
    \* the concurrent callers of getJWTToken
    currentJWT, jwtExpiry, now, callers,
    \* the calls made and the exchanges posted so far, the exchange whose response
    \* wrote each of the two cache variables, the responses stored so far and the
    \* latest event of the history
    jwtCalls, exchanges, cacheWriters, stores, lastEvent,
    \* one GET /api/servers, GET /api/servers/:serverId, GET .../spacelift-logs or
    \* POST .../save request, and the log of its spaceliftQuery invocations
    account, rdKind, rdServerId, rdPc, rdResponse, rdCalls,
    \* one POST /api/deploy request, and the environments the orchestrator has
    \* created for it
    dpBody, dpPc, dpStep, dpCalls, dpResponse, dpCreated

jwtVars == <<currentJWT, jwtExpiry, now, callers, jwtCalls, exchanges, cacheWriters,
             stores, lastEvent>>
rdVars  == <<account, rdKind, rdServerId, rdPc, rdResponse, rdCalls>>
dpVars  == <<dpBody, dpPc, dpStep, dpCalls, dpResponse, dpCreated>>
apiVars == <<jwtVars, rdVars, dpVars, other, running>>
vars    == <<stVars, gVars, tdVars, apiVars>>

StIdle == stOpentofu = "Missing" /\ stAnsible = "Missing" /\ stResult = "" /\ stDone = FALSE
GIdle  == gStacks = <<>> /\ gGroups = <<>> /\ gDone = FALSE
TdIdle ==
    /\ stacks = <<>> /\ taskState = "none" /\ serverId = 0 /\ saveWorld = FALSE
    /\ pc = "idle" /\ calls = <<>> /\ destroyResults = <<>> /\ statusUpdates = <<>>
    /\ saveMessage = "" /\ stackResult = <<>> /\ ansibleStack = <<>>
    /\ openTofuStack = <<>> /\ response = <<>> /\ other = <<>> /\ running = 1

JwtIdle ==
    /\ currentJWT = 0 /\ jwtExpiry = 0 /\ now = 0 /\ callers = <<>> /\ jwtCalls = 0
    /\ exchanges = 0 /\ cacheWriters = <<0, 0>> /\ stores = <<>> /\ lastEvent = <<>>
RdIdle ==
    /\ account = <<>> /\ rdKind = "" /\ rdServerId = 0 /\ rdPc = "idle" /\ rdResponse = <<>>
    /\ rdCalls = <<>>
DpIdle ==
    /\ dpBody = <<>> /\ dpPc = "idle" /\ dpStep = "" /\ dpCalls = <<>> /\ dpResponse = <<>>
    /\ dpCreated = <<>>

(***************************************************************************)
(* SpecStatus: determineOverallStatus on every pair of statuses            *)
(***************************************************************************)
\* the states the table names, Missing for an absent member, and other run states
Statuses == { "FINISHED", "FAILED", "UNCONFIRMED", "PLANNING", "APPLYING", "Missing",
              "PREPARING", "DISCARDED", "DESTROYING" }

InitStatus ==
    /\ stOpentofu \in Statuses
    /\ stAnsible \in Statuses
    /\ stResult = ""
    /\ stDone = FALSE
    /\ GIdle
    /\ TdIdle
    /\ JwtIdle
    /\ RdIdle
    /\ DpIdle

DetermineStatus ==
    /\ ~stDone
    /\ stResult' = determineOverallStatus(stOpentofu, stAnsible)
    /\ stDone' = TRUE
    /\ UNCHANGED <<stOpentofu, stAnsible, gVars, tdVars, apiVars>>

NextStatus == DetermineStatus

SpecStatus == InitStatus /\ [][NextStatus]_vars

(***************************************************************************)
(* SpecGroup: groupStacksByBlueprint on every list of at most MaxInput     *)
(* stacks with distinct names                                              *)
(***************************************************************************)
MaxInput == 3

gnOpentofuBpK1  == <<"a","-">> \o sOpentofu \o <<"-">> \o sBlueprintDash \o <<"k","1">>
gnAnsibleBpK1   == <<"a","-">> \o sAnsible \o <<"-">> \o sBlueprintDash \o <<"k","1">>
gnOpentofuBpK1b == <<"b","-">> \o sOpentofu \o <<"-">> \o sBlueprintDash \o <<"k","1">>
gnAnsibleBpK2   == <<"a","-">> \o sAnsible \o <<"-">> \o sBlueprintDash \o <<"k","2">>
gnPlainBpK2     == <<"c","-">> \o sBlueprintDash \o <<"k","2">>
gnManualK1      == <<"k","1","-">> \o sopentofu
gnManualM       == <<"m","_","x","-">> \o sAnsible \o <<"-","e","u">>
gnSolo          == <<"s","o","l","o">>
gnDash          == <<"-">>

\* the stacks the lists are drawn from: id and createdAt are the position here
GroupCatalogue ==
    << [ name |-> gnOpentofuBpK1,
         outputs |-> << [ id |-> "ec2_ip", value |-> "1.2.3.4" ],
                        [ id |-> "max_players", value |-> "20" ] >> ],
       [ name |-> gnAnsibleBpK1,   outputs |-> <<>> ],
       [ name |-> gnOpentofuBpK1b, outputs |-> <<>> ],
       [ name |-> gnAnsibleBpK2,   outputs |-> <<>> ],
       [ name |-> gnPlainBpK2,     outputs |-> <<>> ],
       [ name |-> gnManualK1,      outputs |-> << [ id |-> "ec2_ip", value |-> "5.6.7.8" ] >> ],
       [ name |-> gnManualM,       outputs |-> <<>> ],
       [ name |-> gnSolo,          outputs |-> <<>> ],
       [ name |-> gnDash,          outputs |-> <<>> ] >>

GroupStates == { "FINISHED", "APPLYING" }

\* the inputs the stack was declared with in the deployment template, as the list
\* of [key, value] pairs of the API
BlueprintInputs(i) ==
    IF GroupCatalogue[i].name = gnOpentofuBpK1
    THEN << [ key |-> "instance_type", value |-> "t3.small" ],
            [ key |-> "max_players", value |-> "10" ] >>
    ELSE IF GroupCatalogue[i].name = gnOpentofuBpK1b
    THEN << [ key |-> "max_players", value |-> "10" ] >>
    ELSE <<>>

GroupInput(i, state) ==
    [ id |-> i, name |-> GroupCatalogue[i].name, state |-> state, createdAt |-> i,
      outputs |-> GroupCatalogue[i].outputs, blueprintInputs |-> BlueprintInputs(i),
      labels |-> << { "minesible" } >> ]

Injective(f) == \A i, j \in DOMAIN f : i # j => f[i] # f[j]

InitGroup ==
    /\ \E n \in 1..MaxInput :
         \E pick \in [1..n -> DOMAIN GroupCatalogue] :
           \E st \in [1..n -> GroupStates] :
             /\ Injective(pick)
             /\ gStacks = [ i \in 1..n |-> GroupInput(pick[i], st[i]) ]
    /\ gGroups = <<>>
    /\ gDone = FALSE
    /\ StIdle
    /\ TdIdle
    /\ JwtIdle
    /\ RdIdle
    /\ DpIdle

GroupStacks ==
    /\ ~gDone
    /\ gGroups' = groupStacksByBlueprint(gStacks)
    /\ gDone' = TRUE
    /\ UNCHANGED <<gStacks, stVars, tdVars, apiVars>>

NextGroup == GroupStacks

SpecGroup == InitGroup /\ [][NextGroup]_vars

(***************************************************************************)
(* Spec: DELETE /api/servers/:serverId (index.js 641-972)                  *)
(*                                                                         *)
(* The handler runs from one await to the next in one step.  calls is the  *)
(* log of spaceliftQuery invocations: [op, id, site, outcome], outcome     *)
(* "pending" while the call is awaited, then "ok" or "error" (spaceliftQuery*)
(* throws on a credential, transport or GraphQL error alike).              *)
(***************************************************************************)
MaxStacks == 3

sAb12 == <<"a","b","1","2">>

tnOpentofu  == sMinesibleOpentofuBlueprintDash \o sAb12
tnAnsible   == sMinesibleAnsibleBlueprintDash \o sAb12
tnXOpentofu == <<"X","-">> \o sOpentofu \o <<"-">> \o sBlueprintDash \o sAb12
tnXAnsible  == <<"X","-">> \o sAnsible \o <<"-">> \o sBlueprintDash \o sAb12
tnServer    == <<"s","r","v","-">> \o sAb12

Labelled == << { "minesible" } >>

Unit(i, name, state, labels) ==
    [ id |-> i, name |-> name, state |-> state, createdAt |-> i, outputs |-> <<>>,
      labels |-> labels ]

\* the stacks an orchestrator account is drawn from; the id is the position here
StackCatalogue ==
    << Unit(1, tnOpentofu,  "FINISHED", Labelled),
       Unit(2, tnAnsible,   "FINISHED", Labelled),
       Unit(3, tnAnsible,   "APPLYING", Labelled),
       Unit(4, tnXOpentofu, "FINISHED", Labelled),
       Unit(5, tnXAnsible,  "FINISHED", Labelled),
       Unit(6, tnServer,    "FINISHED", Labelled),
       Unit(7, tnServer,    "FINISHED", << {} >>),
       Unit(8, tnServer,    "FINISHED", <<>>) >>

ErrorMessage == "orchestrator error"

\* allStacks.find(pred): the first stack of the list among the positions at, where
\* pred holds, or null
Find(list, at) == IF at = {} THEN <<>> ELSE << list[SetMin(at)] >>

\* stack.labels && stack.labels.includes('minesible')
HasMinesibleLabel(stack) == stack.labels # <<>> /\ "minesible" \in stack.labels[1]

addStatusUpdate(updates, message, type) ==
    Append(updates, [ message |-> message, type |-> type ])

Call(op, id, site) == [ op |-> op, id |-> id, site |-> site, outcome |-> "pending" ]

Settled(log, outcome) == [ log EXCEPT ![Len(log)].outcome = outcome ]

\* res.status(code).json(body); the message of a group deletion is its saveMessage,
\* which 'Server deletion initiated.' follows in the source
Reply(status, success, error, results, updates, worldSaved, message) ==
    << [ status |-> status, success |-> success, error |-> error,
         destroyResults |-> results, statusUpdates |-> updates,
         worldSaved |-> worldSaved, message |-> message ] >>

Deleted(role, id) == [ stack |-> role, stackId |-> id, deleted |-> TRUE, error |-> "" ]

NotDeleted(role, id, message) ==
    [ stack |-> role, stackId |-> id, deleted |-> FALSE, error |-> message ]

\* stackResult.stack.name.includes('Opentofu') ? 'opentofu' : 'ansible'
DirectRole(stack) == IF includes(stack.name, sOpentofu) THEN "opentofu" ELSE "ansible"

\* line 699
IsDirectDeletion(stack) == includes(stack.name, sOpentofu) \/ includes(stack.name, sAnsible)

\* line 709
IsOpentofuDeletion(stack) == includes(toLowerCase(stack.name), sopentofu)

\* line 717
DependentAnsibleName(stack) == sMinesibleAnsibleBlueprintDash \o blueprintToken(stack.name)

\* lines 734-736
FindDependentAnsible(allStacks, stack) ==
    Find(allStacks, { i \in DOMAIN allStacks :
        allStacks[i].name = DependentAnsibleName(stack) /\ HasMinesibleLabel(allStacks[i]) })

\* the catch of lines 965-971
Catch500 ==
    /\ response' = Reply(500, FALSE, ErrorMessage, <<>>, <<>>, FALSE, "")
    /\ pc' = "done"

InitDelete ==
    /\ \E n \in 1..MaxStacks :
         \E pick \in [1..n -> DOMAIN StackCatalogue] :
           /\ \A i, j \in 1..n : i # j => StackCatalogue[pick[i]].name # StackCatalogue[pick[j]].name
           /\ stacks = [ i \in 1..n |-> StackCatalogue[pick[i]] ]
    /\ serverId \in { 0 } \cup { stacks[i].id : i \in DOMAIN stacks }
    /\ saveWorld \in BOOLEAN
    /\ taskState = "none"
    /\ pc = "start"
    /\ calls = <<>>
    /\ destroyResults = <<>>
    /\ statusUpdates = <<>>
    /\ saveMessage = ""
    /\ stackResult = <<>>
    /\ ansibleStack = <<>>
    /\ openTofuStack = <<>>
    /\ response = <<>>
    /\ other = <<>>
    /\ running = 1
    /\ StIdle
    /\ GIdle
    /\ JwtIdle
    /\ RdIdle
    /\ DpIdle

\* lines 666-686: up to the first await
StartRequest ==
    /\ pc = "start"
    /\ statusUpdates' = addStatusUpdate(statusUpdates, "Starting server deletion process", "info")
    /\ calls' = Append(calls, Call("stack", serverId, "getStack"))
    /\ pc' = "awaitGetStack"
    /\ UNCHANGED <<stacks, taskState, serverId, saveWorld, destroyResults, saveMessage,
                   stackResult, ansibleStack, openTofuStack, response, stVars, gVars, apiVars>>

GetStackFails ==
    /\ pc = "awaitGetStack"
    /\ calls' = Settled(calls, "error")
    /\ Catch500
    /\ UNCHANGED <<stacks, taskState, serverId, saveWorld, destroyResults, statusUpdates,
                   saveMessage, stackResult, ansibleStack, openTofuStack, stVars, gVars, apiVars>>

\* lines 782-803: delete the requested stack, up to the await of its mutation
DeleteRequestedStack(stack, updates, results, log) ==
    LET upd == addStatusUpdate(updates,
                   IF includes(stack.name, sOpentofu) THEN "Deleting OpenTofu stack"
                                                      ELSE "Deleting Ansible stack",
                   "info")
    IN  IF stack.id = 0
        THEN /\ destroyResults' = Append(results, NotDeleted(DirectRole(stack), 0,
                                                   "Stack ID is null or undefined"))
             /\ statusUpdates' = addStatusUpdate(
                    addStatusUpdate(upd, "Error: Stack ID is null or undefined", "error"),
                    "Stack deletion process completed", "success")
             /\ calls' = log
             /\ response' = Reply(200, TRUE, "", destroyResults', << statusUpdates' >>, FALSE,
                                  "Stack deletion completed.")
             /\ pc' = "done"
        ELSE /\ destroyResults' = results
             /\ statusUpdates' = upd
             /\ calls' = Append(log, Call("stackDelete", stack.id, "direct"))
             /\ response' = response
             /\ pc' = "awaitDirectDelete"

\* lines 688-733 and 834-852: the stack has been fetched
GetStackReturns ==
    /\ pc = "awaitGetStack"
    /\ LET found == Find(stacks, { i \in DOMAIN stacks : stacks[i].id = serverId })
           log   == Settled(calls, "ok")
           upd1  == addStatusUpdate(statusUpdates, "Found stack", "info")
           upd2  == addStatusUpdate(upd1, "Direct stack deletion detected", "info")
       IN  /\ stackResult' = found
           /\ IF found = <<>>
              THEN /\ response' = Reply(404, FALSE, "Server not found", <<>>,
                                        << statusUpdates >>, FALSE, "")
                   /\ pc' = "done"
                   /\ calls' = log
                   /\ UNCHANGED <<destroyResults, statusUpdates>>
              ELSE IF found[1].labels = <<>>
              THEN \* labels.includes on null throws a TypeError
                   /\ Catch500
                   /\ calls' = log
                   /\ UNCHANGED <<destroyResults, statusUpdates>>
              ELSE IF "minesible" \notin found[1].labels[1]
              THEN /\ response' = Reply(404, FALSE, "Server not found", <<>>,
                                        << statusUpdates >>, FALSE, "")
                   /\ pc' = "done"
                   /\ calls' = log
                   /\ UNCHANGED <<destroyResults, statusUpdates>>
              ELSE IF IsDirectDeletion(found[1])
              THEN IF IsOpentofuDeletion(found[1])
                   THEN IF blueprintMatch(found[1].name)
                        THEN /\ statusUpdates' =
                                  addStatusUpdate(
                                      addStatusUpdate(upd2,
                                          "OpenTofu stack deletion - checking for dependent stacks",
                                          "info"),
                                      "Looking for Ansible stack", "info")
                             /\ calls' = Append(log, Call("stacks", 0, "dependentLookup"))
                             /\ pc' = "awaitDependentLookup"
                             /\ UNCHANGED <<destroyResults, response>>
                        ELSE DeleteRequestedStack(found[1],
                                 addStatusUpdate(upd2,
                                     "OpenTofu stack deletion - checking for dependent stacks",
                                     "info"),
                                 destroyResults, log)
                   ELSE DeleteRequestedStack(found[1],
                            addStatusUpdate(upd2,
                                "Ansible stack deletion - no dependencies to check", "info"),
                            destroyResults, log)
              ELSE /\ statusUpdates' = upd1
                   /\ calls' = Append(log, Call("stacks", 0, "groupLookup"))
                   /\ pc' = "awaitGroupLookup"
                   /\ UNCHANGED <<destroyResults, response>>
    /\ UNCHANGED <<stacks, taskState, serverId, saveWorld, saveMessage, ansibleStack,
                   openTofuStack, stVars, gVars, apiVars>>

\* line 733 is awaited outside the inner try blocks
DependentLookupFails ==
    /\ pc = "awaitDependentLookup"
    /\ calls' = Settled(calls, "error")
    /\ Catch500
    /\ UNCHANGED <<stacks, taskState, serverId, saveWorld, destroyResults, statusUpdates,
                   saveMessage, stackResult, ansibleStack, openTofuStack, stVars, gVars, apiVars>>

\* lines 734-745 and 773-776
DependentLookupReturns ==
    /\ pc = "awaitDependentLookup"
    /\ LET dep == FindDependentAnsible(stacks, stackResult[1])
           log == Settled(calls, "ok")
       IN  /\ ansibleStack' = dep
           /\ IF dep # <<>>
              THEN /\ statusUpdates' =
                        addStatusUpdate(
                            addStatusUpdate(statusUpdates, "Found dependent Ansible stack", "info"),
                            "Deleting Ansible stack first (dependency requirement)", "warning")
                   /\ calls' = Append(log, Call("stackDelete", dep[1].id, "dependent"))
                   /\ pc' = "awaitDependentDelete"
                   /\ UNCHANGED <<destroyResults, response>>
              ELSE DeleteRequestedStack(stackResult[1],
                       addStatusUpdate(statusUpdates,
                           "No dependent Ansible stack found, proceeding with OpenTofu deletion",
                           "info"),
                       destroyResults, log)
    /\ UNCHANGED <<stacks, taskState, serverId, saveWorld, saveMessage, stackResult,
                   openTofuStack, stVars, gVars, apiVars>>

\* lines 763-772 and on: the catch of the dependent deletion
DependentDeleteFails ==
    /\ pc = "awaitDependentDelete"
    /\ DeleteRequestedStack(stackResult[1],
           addStatusUpdate(
               addStatusUpdate(statusUpdates, "Ansible stack deletion failed", "error"),
               "Continuing with OpenTofu deletion despite Ansible failure", "warning"),
           Append(destroyResults, NotDeleted("ansible", ansibleStack[1].id, ErrorMessage)),
           Settled(calls, "error"))
    /\ UNCHANGED <<stacks, taskState, serverId, saveWorld, saveMessage, stackResult,
                   ansibleStack, openTofuStack, stVars, gVars, apiVars>>

\* lines 749-761: up to the setTimeout
DependentDeleteReturns ==
    /\ pc = "awaitDependentDelete"
    /\ calls' = Settled(calls, "ok")
    /\ destroyResults' = Append(destroyResults, Deleted("ansible", ansibleStack[1].id))
    /\ statusUpdates' =
           addStatusUpdate(
               addStatusUpdate(statusUpdates, "Ansible stack deleted successfully", "success"),
               "Waiting 10 seconds before deleting OpenTofu stack", "info")
    /\ pc' = "dependentSettle"
    /\ UNCHANGED <<stacks, taskState, serverId, saveWorld, saveMessage, stackResult,
                   ansibleStack, openTofuStack, response, stVars, gVars, apiVars>>

\* line 761: the timer fires
DependentSettleElapses ==
    /\ pc = "dependentSettle"
    /\ DeleteRequestedStack(stackResult[1], statusUpdates, destroyResults, calls)
    /\ UNCHANGED <<stacks, taskState, serverId, saveWorld, saveMessage, stackResult,
                   ansibleStack, openTofuStack, stVars, gVars, apiVars>>

\* lines 823-831
DirectReply(results, updates) ==
    /\ destroyResults' = results
    /\ statusUpdates' = addStatusUpdate(updates, "Stack deletion process completed", "success")
    /\ response' = Reply(200, TRUE, "", destroyResults', << statusUpdates' >>, FALSE,
                                  "Stack deletion completed.")
    /\ pc' = "done"

\* lines 812-820
DirectDeleteFails ==
    /\ pc = "awaitDirectDelete"
    /\ calls' = Settled(calls, "error")
    /\ DirectReply(
           Append(destroyResults,
                  NotDeleted(DirectRole(stackResult[1]), stackResult[1].id, ErrorMessage)),
           addStatusUpdate(statusUpdates, "stack deletion failed", "error"))
    /\ UNCHANGED <<stacks, taskState, serverId, saveWorld, saveMessage, stackResult,
                   ansibleStack, openTofuStack, stVars, gVars, apiVars>>

\* lines 804-811
DirectDeleteReturns ==
    /\ pc = "awaitDirectDelete"
    /\ calls' = Settled(calls, "ok")
    /\ DirectReply(
           Append(destroyResults, Deleted(DirectRole(stackResult[1]), stackResult[1].id)),
           addStatusUpdate(statusUpdates, "stack deleted successfully", "success"))
    /\ UNCHANGED <<stacks, taskState, serverId, saveWorld, saveMessage, stackResult,
                   ansibleStack, openTofuStack, stVars, gVars, apiVars>>

\* line 835
RandomString(stack) == splitPop(stack.name)

\* lines 855-858
FindOpenTofuStack(allStacks, randomString) ==
    Find(allStacks, { i \in DOMAIN allStacks :
        \/ toLowerCase(allStacks[i].name)
               = toLowerCase(sMinesibleOpentofuBlueprintDash \o randomString)
        \/ /\ includes(allStacks[i].name, randomString)
           /\ includes(toLowerCase(allStacks[i].name), sopentofu) })

\* lines 859-862
FindAnsibleStack(allStacks, randomString) ==
    Find(allStacks, { i \in DOMAIN allStacks :
        \/ toLowerCase(allStacks[i].name)
               = toLowerCase(sMinesibleAnsibleBlueprintDash \o randomString)
        \/ /\ includes(allStacks[i].name, randomString)
           /\ includes(toLowerCase(allStacks[i].name), sansible) })

\* line 870, as if the state of the Ansible stack were not tested
ShouldSaveWorld_AnyState(requested, ansible) == requested /\ ansible # <<>>

\* line 870
ShouldSaveWorld(requested, ansible) ==
    requested /\ ansible # <<>> /\ ansible[1].state = "FINISHED"


\* saveMessage.includes('save') instead: true of each of the four messages
IncludesSaved_Save(message) ==
    message \in { "World saved to S3 before deletion. ",
                  "World save failed but continuing with deletion. ",
                  "World save requested but server not available for saving. ",
                  "World not saved (user choice). " }

\* saveMessage.includes('saved'), on the four messages of lines 892-900
IncludesSaved(message) ==
    message \in { "World saved to S3 before deletion. ", "World not saved (user choice). " }

\* lines 956-963: the reply of a group deletion carries no statusUpdates
GroupReply(message, results) ==
    /\ response' = Reply(200, TRUE, "", results, <<>>, saveWorld /\ IncludesSaved(message),
                        message)
    /\ pc' = "done"

\* line 904, as if no Ansible stack were ever deleted
DeletesAnsible_Never(ansible) == FALSE

\* line 904
DeletesAnsible(ansible) == ansible # <<>>

\* line 928
DeletesOpenTofu(openTofu) == openTofu # <<>>


\* lines 928-935, as if the timer of line 930 were left out
DeleteOpenTofuStack_NoSettle(message, ansible, openTofu, results, log) ==
    /\ saveMessage' = message
    /\ destroyResults' = results
    /\ IF DeletesOpenTofu(openTofu)
       THEN /\ calls' = Append(log, Call("stackDelete", openTofu[1].id, "groupOpenTofu"))
            /\ pc' = "awaitGroupOpenTofuDelete"
            /\ response' = response
       ELSE /\ calls' = log
            /\ GroupReply(message, results)

\* lines 928-935: the OpenTofu stack, behind the timer if an Ansible stack was found
DeleteOpenTofuStack(message, ansible, openTofu, results, log) ==
    /\ saveMessage' = message
    /\ destroyResults' = results
    /\ IF DeletesOpenTofu(openTofu)
       THEN IF ansible # <<>>
            THEN /\ calls' = log
                 /\ pc' = "groupSettle"
                 /\ response' = response
            ELSE /\ calls' = Append(log, Call("stackDelete", openTofu[1].id, "groupOpenTofu"))
                 /\ pc' = "awaitGroupOpenTofuDelete"
                 /\ response' = response
       ELSE /\ calls' = log
            /\ GroupReply(message, results)


\* lines 903-935, as if the two mutations were started together and awaited afterwards
DeleteStacks_Together(message, ansible, openTofu, results, log) ==
    IF DeletesAnsible(ansible) /\ DeletesOpenTofu(openTofu)
    THEN /\ saveMessage' = message
         /\ destroyResults' = results
         /\ calls' = Append(Append(log, Call("stackDelete", openTofu[1].id, "groupOpenTofu")),
                            Call("stackDelete", ansible[1].id, "groupAnsible"))
         /\ pc' = "awaitGroupAnsibleDelete"
         /\ response' = response
    ELSE IF DeletesAnsible(ansible)
    THEN /\ saveMessage' = message
         /\ destroyResults' = results
         /\ calls' = Append(log, Call("stackDelete", ansible[1].id, "groupAnsible"))
         /\ pc' = "awaitGroupAnsibleDelete"
         /\ response' = response
    ELSE DeleteOpenTofuStack(message, ansible, openTofu, results, log)

\* lines 903-910: the Ansible stack first
DeleteStacks(message, ansible, openTofu, results, log) ==
    IF DeletesAnsible(ansible)
    THEN /\ saveMessage' = message
         /\ destroyResults' = results
         /\ calls' = Append(log, Call("stackDelete", ansible[1].id, "groupAnsible"))
         /\ pc' = "awaitGroupAnsibleDelete"
         /\ response' = response
    ELSE DeleteOpenTofuStack(message, ansible, openTofu, results, log)

\* line 852 is awaited outside the inner try blocks
GroupLookupFails ==
    /\ pc = "awaitGroupLookup"
    /\ calls' = Settled(calls, "error")
    /\ Catch500
    /\ UNCHANGED <<stacks, taskState, serverId, saveWorld, destroyResults, statusUpdates,
                   saveMessage, stackResult, ansibleStack, openTofuStack, stVars, gVars, apiVars>>

\* lines 853-910
GroupLookupReturns ==
    /\ pc = "awaitGroupLookup"
    /\ LET o   == FindOpenTofuStack(stacks, RandomString(stackResult[1]))
           a   == FindAnsibleStack(stacks, RandomString(stackResult[1]))
           log == Settled(calls, "ok")
       IN  /\ openTofuStack' = o
           /\ ansibleStack' = a
           /\ IF ShouldSaveWorld(saveWorld, a)
              THEN /\ calls' = Append(log, Call("taskTrigger", a[1].id, "saveWorld"))
                   /\ pc' = "awaitSaveTrigger"
                   /\ UNCHANGED <<saveMessage, destroyResults, response>>
              ELSE IF saveWorld
              THEN DeleteStacks("World save requested but server not available for saving. ",
                                a, o, destroyResults, log)
              ELSE DeleteStacks("World not saved (user choice). ", a, o, destroyResults, log)
    /\ UNCHANGED <<stacks, taskState, serverId, saveWorld, statusUpdates, stackResult,
                   stVars, gVars, apiVars>>

\* lines 893-896
SaveTriggerFails ==
    /\ pc = "awaitSaveTrigger"
    /\ DeleteStacks("World save failed but continuing with deletion. ",
                    ansibleStack, openTofuStack, destroyResults, Settled(calls, "error"))
    /\ UNCHANGED <<stacks, taskState, serverId, saveWorld, statusUpdates, stackResult,
                   ansibleStack, openTofuStack, stVars, gVars, apiVars>>

\* lines 885-891: the task has been started, the handler sleeps
SaveTriggerReturns ==
    /\ pc = "awaitSaveTrigger"
    /\ calls' = Settled(calls, "ok")
    /\ taskState' = "running"
    /\ pc' = "saveSettle"
    /\ UNCHANGED <<stacks, serverId, saveWorld, destroyResults, statusUpdates, saveMessage,
                   stackResult, ansibleStack, openTofuStack, response, stVars, gVars, apiVars>>

\* lines 891-892: the timer fires, whatever the task has done by then
SaveSettleElapses ==
    /\ pc = "saveSettle"
    /\ DeleteStacks("World saved to S3 before deletion. ",
                    ansibleStack, openTofuStack, destroyResults, calls)
    /\ UNCHANGED <<stacks, taskState, serverId, saveWorld, statusUpdates, stackResult,
                   ansibleStack, openTofuStack, stVars, gVars, apiVars>>

\* lines 918-925, as if the failure were rethrown to the catch of the handler
GroupAnsibleDeleteFails_Aborts ==
    /\ pc = "awaitGroupAnsibleDelete"
    /\ calls' = Settled(calls, "error")
    /\ Catch500
    /\ UNCHANGED <<stacks, taskState, serverId, saveWorld, destroyResults, statusUpdates,
                   saveMessage, stackResult, ansibleStack, openTofuStack, stVars, gVars, apiVars>>

\* lines 918-925, as if the failed mutation were sent a second time before giving up
GroupAnsibleDeleteFails_RetriesOnce ==
    /\ pc = "awaitGroupAnsibleDelete"
    /\ IF Cardinality({ i \in DOMAIN calls : calls[i].site = "groupAnsible" }) = 1
       THEN /\ calls' = Append(Settled(calls, "error"),
                               Call("stackDelete", ansibleStack[1].id, "groupAnsible"))
            /\ UNCHANGED <<pc, saveMessage, destroyResults, response>>
       ELSE DeleteOpenTofuStack(saveMessage, ansibleStack, openTofuStack,
                Append(destroyResults, NotDeleted("ansible", ansibleStack[1].id, ErrorMessage)),
                Settled(calls, "error"))
    /\ UNCHANGED <<stacks, taskState, serverId, saveWorld, statusUpdates, stackResult,
                   ansibleStack, openTofuStack, stVars, gVars, apiVars>>

\* lines 918-925
GroupAnsibleDeleteFails ==
    /\ pc = "awaitGroupAnsibleDelete"
    /\ DeleteOpenTofuStack(saveMessage, ansibleStack, openTofuStack,
           Append(destroyResults, NotDeleted("ansible", ansibleStack[1].id, ErrorMessage)),
           Settled(calls, "error"))
    /\ UNCHANGED <<stacks, taskState, serverId, saveWorld, statusUpdates, stackResult,
                   ansibleStack, openTofuStack, stVars, gVars, apiVars>>

\* lines 911-917
GroupAnsibleDeleteReturns ==
    /\ pc = "awaitGroupAnsibleDelete"
    /\ DeleteOpenTofuStack(saveMessage, ansibleStack, openTofuStack,
           Append(destroyResults, Deleted("ansible", ansibleStack[1].id)),
           Settled(calls, "ok"))
    /\ UNCHANGED <<stacks, taskState, serverId, saveWorld, statusUpdates, stackResult,
                   ansibleStack, openTofuStack, stVars, gVars, apiVars>>

\* lines 930-935: the timer fires
GroupSettleElapses ==
    /\ pc = "groupSettle"
    /\ calls' = Append(calls, Call("stackDelete", openTofuStack[1].id, "groupOpenTofu"))
    /\ pc' = "awaitGroupOpenTofuDelete"
    /\ UNCHANGED <<stacks, taskState, serverId, saveWorld, destroyResults, statusUpdates,
                   saveMessage, stackResult, ansibleStack, openTofuStack, response,
                   stVars, gVars, apiVars>>


\* lines 946-953 and 956-963, as if the catch only logged the failure
GroupOpenTofuDeleteFails_Unrecorded ==
    /\ pc = "awaitGroupOpenTofuDelete"
    /\ calls' = Settled(calls, "error")
    /\ destroyResults' = destroyResults
    /\ GroupReply(saveMessage, destroyResults')
    /\ UNCHANGED <<stacks, taskState, serverId, saveWorld, statusUpdates, saveMessage,
                   stackResult, ansibleStack, openTofuStack, stVars, gVars, apiVars>>

\* lines 946-953 and 956-963
GroupOpenTofuDeleteFails ==
    /\ pc = "awaitGroupOpenTofuDelete"
    /\ calls' = Settled(calls, "error")
    /\ destroyResults' =
           Append(destroyResults, NotDeleted("opentofu", openTofuStack[1].id, ErrorMessage))
    /\ GroupReply(saveMessage, destroyResults')
    /\ UNCHANGED <<stacks, taskState, serverId, saveWorld, statusUpdates, saveMessage,
                   stackResult, ansibleStack, openTofuStack, stVars, gVars, apiVars>>

\* lines 939-945 and 956-963
GroupOpenTofuDeleteReturns ==
    /\ pc = "awaitGroupOpenTofuDelete"
    /\ calls' = Settled(calls, "ok")
    /\ destroyResults' = Append(destroyResults, Deleted("opentofu", openTofuStack[1].id))
    /\ GroupReply(saveMessage, destroyResults')
    /\ UNCHANGED <<stacks, taskState, serverId, saveWorld, statusUpdates, saveMessage,
                   stackResult, ansibleStack, openTofuStack, stVars, gVars, apiVars>>

\* the orchestrator: save-world.yml (zip the world, upload it to S3) runs to its end
\* on a worker, in its own time
TaskCompletes ==
    /\ taskState = "running"
    /\ taskState' = "done"
    /\ UNCHANGED <<stacks, serverId, saveWorld, pc, calls, destroyResults, statusUpdates,
                   saveMessage, stackResult, ansibleStack, openTofuStack, response,
                   stVars, gVars, apiVars>>

Next ==
    \/ StartRequest
    \/ GetStackFails
    \/ GetStackReturns
    \/ DependentLookupFails
    \/ DependentLookupReturns
    \/ DependentDeleteFails
    \/ DependentDeleteReturns
    \/ DependentSettleElapses
    \/ DirectDeleteFails
    \/ DirectDeleteReturns
    \/ GroupLookupFails
    \/ GroupLookupReturns
    \/ SaveTriggerFails
    \/ SaveTriggerReturns
    \/ SaveSettleElapses
    \/ GroupAnsibleDeleteFails
    \/ GroupAnsibleDeleteReturns
    \/ GroupSettleElapses
    \/ GroupOpenTofuDeleteFails
    \/ GroupOpenTofuDeleteReturns
    \/ TaskCompletes

Spec == InitDelete /\ [][Next]_vars

\* the steps of the handler: every action but the progress of the save-world task
HandlerStep ==
    \/ StartRequest
    \/ GetStackFails
    \/ GetStackReturns
    \/ DependentLookupFails
    \/ DependentLookupReturns
    \/ DependentDeleteFails
    \/ DependentDeleteReturns
    \/ DependentSettleElapses
    \/ DirectDeleteFails
    \/ DirectDeleteReturns
    \/ GroupLookupFails
    \/ GroupLookupReturns
    \/ SaveTriggerFails
    \/ SaveTriggerReturns
    \/ SaveSettleElapses
    \/ GroupAnsibleDeleteFails
    \/ GroupAnsibleDeleteReturns
    \/ GroupSettleElapses
    \/ GroupOpenTofuDeleteFails
    \/ GroupOpenTofuDeleteReturns

\* every awaited call of the handler is answered or fails, and every timer fires
FairSpec == Spec /\ WF_vars(HandlerStep)

(***************************************************************************)
(* SpecRead: GET /api/servers (index.js 395-433),                          *)
(* GET /api/servers/:serverId (index.js 1256-1317),                        *)
(* GET /api/servers/:stackId/spacelift-logs (index.js 1069-1254) and       *)
(* POST /api/servers/:serverId/save (index.js 564-638) on every account of *)
(* at most MaxAccount stacks with distinct names.  rdCalls is the log of   *)
(* the spaceliftQuery invocations of the request: [op, kind, target,       *)
(* outcome, error], outcome "pending" while the call is awaited.           *)
(***************************************************************************)

(***************************************************************************)
(* SpecOverlap: the same handler on accounts whose names overlap: a name   *)
(* that holds the token and both role words, so that both find calls of    *)
(* lines 855-862 take it, and an Ansible-named stack whose token is        *)
(* "opentofu", which the direct mode (709-736) takes for an OpenTofu stack *)
(* and for its own dependent.                                              *)
(***************************************************************************)
onBothRoles == sopentofu \o <<"-">> \o sansible \o <<"-">> \o sAb12

onOwnDependent == sMinesibleAnsibleBlueprintDash \o sopentofu

OverlapCatalogue ==
    << Unit(1, tnServer,       "FINISHED", Labelled),
       Unit(2, onBothRoles,    "FINISHED", Labelled),
       Unit(3, onOwnDependent, "FINISHED", Labelled),
       Unit(4, tnOpentofu,     "FINISHED", Labelled),
       Unit(5, tnAnsible,      "FINISHED", Labelled),
       Unit(6, onBothRoles,    "APPLYING", << {} >>) >>

InitOverlap ==
    /\ \E n \in 1..MaxStacks :
         \E pick \in [1..n -> DOMAIN OverlapCatalogue] :
           /\ \A i, j \in 1..n :
                i # j => OverlapCatalogue[pick[i]].name # OverlapCatalogue[pick[j]].name
           /\ stacks = [ i \in 1..n |-> OverlapCatalogue[pick[i]] ]
    /\ serverId \in { 0 } \cup { stacks[i].id : i \in DOMAIN stacks }
    /\ saveWorld \in BOOLEAN
    /\ taskState = "none"
    /\ pc = "start"
    /\ calls = <<>>
    /\ destroyResults = <<>>
    /\ statusUpdates = <<>>
    /\ saveMessage = ""
    /\ stackResult = <<>>
    /\ ansibleStack = <<>>
    /\ openTofuStack = <<>>
    /\ response = <<>>
    /\ other = <<>>
    /\ running = 1
    /\ StIdle
    /\ GIdle
    /\ JwtIdle
    /\ RdIdle
    /\ DpIdle

SpecOverlap == InitOverlap /\ [][Next]_vars


(***************************************************************************)
(* SpecTwo: two DELETE requests in flight at once.  Node runs one handler  *)
(* at a time and switches at an await, so every action above is a step of  *)
(* the handler that is running, and Resume hands the thread to the other   *)
(* handler, whose locals wait in other.  The orchestrator (stacks,         *)
(* taskState) is shared; nothing else is: the handlers keep no common state*)
(***************************************************************************)
TwoCatalogue ==
    << Unit(1, tnServer,   "FINISHED", Labelled),
       Unit(2, tnOpentofu, "FINISHED", Labelled),
       Unit(3, tnAnsible,  "FINISHED", Labelled) >>

\* the locals of a handler that has just been entered (lines 642-665)
Entered(id, save) ==
    << [ serverId |-> id, saveWorld |-> save, pc |-> "start", calls |-> <<>>,
         destroyResults |-> <<>>, statusUpdates |-> <<>>, saveMessage |-> "",
         stackResult |-> <<>>, ansibleStack |-> <<>>, openTofuStack |-> <<>>,
         response |-> <<>> ] >>

\* the locals of the handler that is running
Locals ==
    << [ serverId |-> serverId, saveWorld |-> saveWorld, pc |-> pc, calls |-> calls,
         destroyResults |-> destroyResults, statusUpdates |-> statusUpdates,
         saveMessage |-> saveMessage, stackResult |-> stackResult,
         ansibleStack |-> ansibleStack, openTofuStack |-> openTofuStack,
         response |-> response ] >>

InitTwo ==
    /\ \E n \in 1..MaxStacks :
         \E pick \in [1..n -> DOMAIN TwoCatalogue] :
           /\ Injective(pick)
           /\ stacks = [ i \in 1..n |-> TwoCatalogue[pick[i]] ]
    /\ serverId \in { stacks[i].id : i \in DOMAIN stacks }
    /\ saveWorld \in BOOLEAN
    /\ \E id \in { stacks[i].id : i \in DOMAIN stacks }, save \in BOOLEAN :
         other = Entered(id, save)
    /\ running = 1
    /\ taskState = "none"
    /\ pc = "start"
    /\ calls = <<>>
    /\ destroyResults = <<>>
    /\ statusUpdates = <<>>
    /\ saveMessage = ""
    /\ stackResult = <<>>
    /\ ansibleStack = <<>>
    /\ openTofuStack = <<>>
    /\ response = <<>>
    /\ StIdle
    /\ GIdle
    /\ JwtIdle
    /\ RdIdle
    /\ DpIdle

\* the event loop resumes the other handler: the running one is at an await or has
\* replied
Resume ==
    /\ other # <<>>
    /\ other' = Locals
    /\ running' = 3 - running
    /\ serverId' = other[1].serverId
    /\ saveWorld' = other[1].saveWorld
    /\ pc' = other[1].pc
    /\ calls' = other[1].calls
    /\ destroyResults' = other[1].destroyResults
    /\ statusUpdates' = other[1].statusUpdates
    /\ saveMessage' = other[1].saveMessage
    /\ stackResult' = other[1].stackResult
    /\ ansibleStack' = other[1].ansibleStack
    /\ openTofuStack' = other[1].openTofuStack
    /\ response' = other[1].response
    /\ UNCHANGED <<stacks, taskState, stVars, gVars, jwtVars, rdVars, dpVars>>

NextTwo ==
    \/ Next
    \/ Resume

SpecTwo == InitTwo /\ [][NextTwo]_vars

MaxAccount == 3

sK2 == <<"k","2">>

sOpentofu1 == sopentofu \o <<"1">>

rnOpentofuP  == sopentofu \o <<"-">> \o sOpentofu \o <<"-">> \o sBlueprintDash \o sK2
rnAnsibleP   == sopentofu \o <<"-">> \o sAnsible \o <<"-">> \o sBlueprintDash \o sK2
rnOpentofuT  == <<"Z","-">> \o sOpentofu \o <<"-">> \o sBlueprintDash \o sOpentofu1
rnAnsibleT   == <<"Z","-">> \o sAnsible \o <<"-">> \o sBlueprintDash \o sOpentofu1
rnOther      == <<"O","t","h","e","r","-">> \o sOpentofu \o <<"-">> \o sBlueprintDash \o sAb12
rnPlain      == <<"s","r","v","-","k","9">>
rnAnsibleK2  == sMinesibleAnsibleBlueprintDash \o sK2

Output(id, value) == [ id |-> id, value |-> value ]

ReadUnit(i, name, state, labels, outputs) ==
    [ id |-> i, name |-> name, state |-> state, createdAt |-> i, outputs |-> outputs,
      labels |-> labels ]

\* the stacks an account is drawn from; the id is the position here
ReadCatalogue ==
    << ReadUnit(1, tnOpentofu,  "FINISHED", Labelled, << Output("ec2_ip", "1.2.3.4") >>),
       ReadUnit(2, tnAnsible,   "FINISHED", Labelled, <<>>),
       ReadUnit(3, tnXOpentofu, "FINISHED", Labelled, << Output("ec2_ip", "") >>),
       ReadUnit(4, tnXAnsible,  "FINISHED", Labelled, <<>>),
       ReadUnit(5, rnOpentofuP, "FINISHED", Labelled, << Output("ec2_ip", "5.6.7.8") >>),
       ReadUnit(6, rnAnsibleP,  "FINISHED", Labelled, <<>>),
       ReadUnit(7, rnOpentofuT, "FINISHED", Labelled, << Output("ec2_ip", "5.6.7.8") >>),
       ReadUnit(8, rnAnsibleT,  "FINISHED", Labelled, <<>>),
       ReadUnit(9, rnOther,     "APPLYING", << { "other" } >>,
                                            << Output("ec2_ip", "9.9.9.9") >>),
       ReadUnit(10, rnPlain,    "FINISHED", << {} >>, <<>>),
       ReadUnit(11, tnServer,   "FINISHED", <<>>, <<>>),
       ReadUnit(12, rnAnsibleK2, "FINISHED", << {} >>, <<>>) >>

TypeErrorMessage == "Cannot read properties of null (reading 'includes')"

\* res.status(code).json(body) of the two handlers: servers and server are absent
\* (the empty sequence) from the bodies that do not carry them
ReadReply(status, success, error, servers, server) ==
    << [ status |-> status, success |-> success, error |-> error,
         servers |-> servers, server |-> server ] >>

\* line 415, as if the filter let every stack through
minesibleStacks_Unfiltered(result) == result

\* lines 415-417
minesibleStacks(result) == SelectSeq(result, HasMinesibleLabel)

\* line 1284: stack.labels.includes on a null labels throws a TypeError
LabelCheckThrows(stack) == stack.labels = <<>>

\* lines 1291-1309
ServerOf(stack) ==
    << [ id |-> stack.id, name |-> stack.name, status |-> stack.state,
         ip |-> OrElse(OutputValue(stack.outputs, "ec2_ip"), Null),
         instanceType |-> OrElse(OutputValue(stack.outputs, "instance_type"), "unknown"),
         maxPlayers |-> OrElse(OutputValue(stack.outputs, "max_players"), "unknown"),
         created |-> stack.createdAt ] >>

\* the message of a GraphQL validation error, and the test of line 1198
SchemaErrorMessage == "Cannot query field \"runs\" on type \"Stack\"."

IncludesCannotQueryField(message) == message = SchemaErrorMessage

ReadCall(op, kind, target) ==
    [ op |-> op, kind |-> kind, target |-> target, outcome |-> "pending", error |-> "" ]

Returns(log) == [ log EXCEPT ![Len(log)].outcome = "returned" ]

Raises(log, message) ==
    [ log EXCEPT ![Len(log)].outcome = "raised", ![Len(log)].error = message ]

\* the first spaceliftQuery of each handler: lines 413, 1282, 1119 and 578
FirstCall(kind, id) ==
    CASE kind = "list" -> ReadCall("GetMinesibleStacks", "query", 0)
      [] kind = "get"  -> ReadCall("GetStack", "query", id)
      [] kind = "logs" -> ReadCall("GetStackWithRuns", "query", id)
      [] kind = "save" -> ReadCall("GetStack", "query", id)

InitRead ==
    /\ \E n \in 1..MaxAccount :
         \E pick \in [1..n -> DOMAIN ReadCatalogue] :
           /\ Injective(pick)
           /\ account = [ i \in 1..n |-> ReadCatalogue[pick[i]] ]
    /\ \/ rdKind = "list" /\ rdServerId = 0
       \/ /\ rdKind \in { "get", "logs", "save" }
          /\ rdServerId \in { 0 } \cup { account[i].id : i \in DOMAIN account }
    /\ rdPc = "start"
    /\ rdResponse = <<>>
    /\ rdCalls = <<>>
    /\ StIdle
    /\ GIdle
    /\ TdIdle
    /\ JwtIdle
    /\ DpIdle

\* lines 396-413, 1257-1282, 1091-1119 and 565-578: up to the await of the
\* first query
ReadRequest ==
    /\ rdPc = "start"
    /\ rdPc' = "await"
    /\ rdCalls' = << FirstCall(rdKind, rdServerId) >>
    /\ UNCHANGED <<account, rdKind, rdServerId, rdResponse, stVars, gVars, tdVars,
                   jwtVars, dpVars>>

\* lines 427-432
ListServersFails ==
    /\ rdPc = "await"
    /\ rdKind = "list"
    /\ rdResponse' = ReadReply(500, FALSE, ErrorMessage, <<>>, <<>>)
    /\ rdPc' = "done"
    /\ rdCalls' = Raises(rdCalls, ErrorMessage)
    /\ UNCHANGED <<account, rdKind, rdServerId, stVars, gVars, tdVars, jwtVars, dpVars>>

\* lines 415-425
ListServersReturns ==
    /\ rdPc = "await"
    /\ rdKind = "list"
    /\ rdResponse' = ReadReply(200, TRUE, "",
                               << groupStacksByBlueprint(minesibleStacks(account)) >>, <<>>)
    /\ rdPc' = "done"
    /\ rdCalls' = Returns(rdCalls)
    /\ UNCHANGED <<account, rdKind, rdServerId, stVars, gVars, tdVars, jwtVars, dpVars>>

\* lines 1311-1316
GetServerFails ==
    /\ rdPc = "await"
    /\ rdKind = "get"
    /\ rdResponse' = ReadReply(500, FALSE, ErrorMessage, <<>>, <<>>)
    /\ rdPc' = "done"
    /\ rdCalls' = Raises(rdCalls, ErrorMessage)
    /\ UNCHANGED <<account, rdKind, rdServerId, stVars, gVars, tdVars, jwtVars, dpVars>>

\* lines 1284-1309
GetServerReturns ==
    /\ rdPc = "await"
    /\ rdKind = "get"
    /\ LET found == Find(account, { i \in DOMAIN account : account[i].id = rdServerId })
       IN  rdResponse' =
             IF found = <<>>
             THEN ReadReply(404, FALSE, "Server not found", <<>>, <<>>)
             ELSE IF LabelCheckThrows(found[1])
             THEN ReadReply(500, FALSE, TypeErrorMessage, <<>>, <<>>)
             ELSE IF "minesible" \notin found[1].labels[1]
             THEN ReadReply(404, FALSE, "Server not found", <<>>, <<>>)
             ELSE ReadReply(200, TRUE, "", <<>>, ServerOf(found[1]))
    /\ rdPc' = "done"
    /\ rdCalls' = Returns(rdCalls)
    /\ UNCHANGED <<account, rdKind, rdServerId, stVars, gVars, tdVars, jwtVars, dpVars>>

\* lines 1121-1127: the stack of the detailed query is null
LogsNotFound == ReadReply(404, FALSE, "Stack not found", <<>>, <<>>)

\* lines 1119-1192: the detailed query returns
LogsQueryReturns ==
    /\ rdPc = "await"
    /\ rdKind = "logs"
    /\ rdCalls' = Returns(rdCalls)
    /\ LET found == Find(account, { i \in DOMAIN account : account[i].id = rdServerId })
       IN  rdResponse' = IF found = <<>> THEN LogsNotFound
                         ELSE ReadReply(200, TRUE, "", <<>>, <<>>)
    /\ rdPc' = "done"
    /\ UNCHANGED <<account, rdKind, rdServerId, stVars, gVars, tdVars, jwtVars, dpVars>>

\* lines 1194-1253: the detailed query raises.  On a message that includes
\* 'Cannot query field' the inner try is entered, where the argument
\* { id: stackId } of the reduced query (line 1214) reads stackId, a const of the
\* try block (line 1092) that the catch block cannot name: its evaluation throws
\* a ReferenceError before spaceliftQuery is invoked, the inner catch (1242) only
\* logs it, and the reply is the 500 of lines 1248-1251 on either message
LogsQueryFails ==
    /\ rdPc = "await"
    /\ rdKind = "logs"
    /\ \E message \in { ErrorMessage, SchemaErrorMessage } :
         /\ rdCalls' = Raises(rdCalls, message)
         /\ rdResponse' = ReadReply(500, FALSE, message, <<>>, <<>>)
    /\ rdPc' = "done"
    /\ UNCHANGED <<account, rdKind, rdServerId, stVars, gVars, tdVars, jwtVars, dpVars>>

\* lines 580-602: the stack of the request is answered; the all-stacks query follows
SaveStackReturns ==
    /\ rdPc = "await"
    /\ rdKind = "save"
    /\ LET found == Find(account, { i \in DOMAIN account : account[i].id = rdServerId })
       IN  IF found = <<>>
           THEN /\ rdResponse' = ReadReply(404, FALSE, "Server not found", <<>>, <<>>)
                /\ rdCalls' = Returns(rdCalls)
                /\ rdPc' = "done"
           ELSE IF LabelCheckThrows(found[1])
           THEN /\ rdResponse' = ReadReply(500, FALSE, TypeErrorMessage, <<>>, <<>>)
                /\ rdCalls' = Returns(rdCalls)
                /\ rdPc' = "done"
           ELSE IF "minesible" \notin found[1].labels[1]
           THEN /\ rdResponse' = ReadReply(404, FALSE, "Server not found", <<>>, <<>>)
                /\ rdCalls' = Returns(rdCalls)
                /\ rdPc' = "done"
           ELSE /\ rdResponse' = rdResponse
                /\ rdCalls' = Append(Returns(rdCalls), ReadCall("GetAllStacks", "query", 0))
                /\ rdPc' = "awaitStacks"
    /\ UNCHANGED <<account, rdKind, rdServerId, stVars, gVars, tdVars, jwtVars, dpVars>>

\* lines 588-589
SaveAnsibleStackName(stack) == sMinesibleAnsibleBlueprintDash \o splitPop(stack.name)

\* line 603: the first stack of the list with exactly that name
SaveAnsibleStack(all, stack) ==
    Find(all, { i \in DOMAIN all : all[i].name = SaveAnsibleStackName(stack) })

\* lines 602-626: the stacks are answered; the task trigger follows
SaveStacksReturn ==
    /\ rdPc = "awaitStacks"
    /\ LET found   == Find(account, { i \in DOMAIN account : account[i].id = rdServerId })
           ansible == SaveAnsibleStack(account, found[1])
       IN  IF ansible = <<>>
           THEN /\ rdResponse' = ReadReply(404, FALSE, "Ansible stack not found", <<>>, <<>>)
                /\ rdCalls' = Returns(rdCalls)
                /\ rdPc' = "done"
           ELSE /\ rdResponse' = rdResponse
                /\ rdCalls' = Append(Returns(rdCalls),
                                     ReadCall("TriggerTask", "taskTrigger", ansible[1].id))
                /\ rdPc' = "awaitTask"
    /\ UNCHANGED <<account, rdKind, rdServerId, stVars, gVars, tdVars, jwtVars, dpVars>>


\* lines 627-630, as if a returned trigger were posted a second time
SaveTaskReturns_TriggersAgain ==
    /\ rdPc = "awaitTask"
    /\ IF Len(rdCalls) = 3
       THEN /\ rdCalls' = Append(Returns(rdCalls), rdCalls[3])
            /\ UNCHANGED <<rdResponse, rdPc>>
       ELSE /\ rdCalls' = Returns(rdCalls)
            /\ rdResponse' = ReadReply(200, TRUE, "", <<>>, <<>>)
            /\ rdPc' = "done"
    /\ UNCHANGED <<account, rdKind, rdServerId, stVars, gVars, tdVars, jwtVars, dpVars>>

\* lines 627-630
SaveTaskReturns ==
    /\ rdPc = "awaitTask"
    /\ rdCalls' = Returns(rdCalls)
    /\ rdResponse' = ReadReply(200, TRUE, "", <<>>, <<>>)
    /\ rdPc' = "done"
    /\ UNCHANGED <<account, rdKind, rdServerId, stVars, gVars, tdVars, jwtVars, dpVars>>

\* lines 632-637: any of the three awaited calls raises
SaveCallFails ==
    /\ rdKind = "save"
    /\ rdPc \in { "await", "awaitStacks", "awaitTask" }
    /\ rdCalls' = Raises(rdCalls, ErrorMessage)
    /\ rdResponse' = ReadReply(500, FALSE, ErrorMessage, <<>>, <<>>)
    /\ rdPc' = "done"
    /\ UNCHANGED <<account, rdKind, rdServerId, stVars, gVars, tdVars, jwtVars, dpVars>>

NextRead ==
    \/ ReadRequest
    \/ ListServersFails
    \/ ListServersReturns
    \/ GetServerFails
    \/ GetServerReturns
    \/ LogsQueryReturns
    \/ LogsQueryFails
    \/ SaveStackReturns
    \/ SaveStacksReturn
    \/ SaveTaskReturns
    \/ SaveCallFails

SpecRead == InitRead /\ [][NextRead]_vars

(***************************************************************************)
(* SpecJwt: getJWTToken (index.js 34-76) under concurrent callers.         *)
(*                                                                         *)
(* A call runs up to its await in one step, and from the response of the   *)
(* exchange to its return in one step.  The clock counts TimeUnit          *)
(* milliseconds.  The orchestrator signs a new token at each exchange: the *)
(* token of an exchange is the number of that exchange.  The events of the *)
(* history: a "hit" is a call answered from the cache, an "issue" a call   *)
(* that posted an exchange, a "store" the response of an exchange written  *)
(* to the cache and returned, a "fail" an exchange that threw.  stores     *)
(* keeps the "store" events, lastEvent the latest event.                   *)
(***************************************************************************)
TimeUnit == 1000000

\* 50 * 60 * 1000 milliseconds
TokenLifetime == (50 * 60 * 1000) \div TimeUnit

MaxCallers == 2

MaxCalls == 4

MaxTime == 4

Callers == 1..MaxCallers

Event(kind, caller, at, value, exchange, inflight) ==
    [ kind |-> kind, caller |-> caller, at |-> at, value |-> value,
      exchange |-> exchange, inflight |-> inflight ]

\* the other callers that are waiting for the response of an exchange
InFlight(c) == Cardinality({ d \in Callers \ { c } : callers[d].pc = "awaitExchange" })

\* line 40, as if the cache were never valid
CacheValid_Never == FALSE


\* line 40, as if the credential were still returned at the instant of its expiry
CacheValid_AtExpiry == currentJWT # 0 /\ jwtExpiry # 0 /\ now <= jwtExpiry

\* line 40
CacheValid == currentJWT # 0 /\ jwtExpiry # 0 /\ now < jwtExpiry

InitJwt ==
    /\ currentJWT = 0
    /\ jwtExpiry = 0
    /\ now = 0
    /\ callers = [ c \in Callers |-> [ pc |-> "idle", exchange |-> 0 ] ]
    /\ jwtCalls = 0
    /\ exchanges = 0
    /\ cacheWriters = <<0, 0>>
    /\ stores = <<>>
    /\ lastEvent = <<>>
    /\ StIdle
    /\ GIdle
    /\ TdIdle
    /\ RdIdle
    /\ DpIdle

\* Date.now() advances
Tick ==
    /\ now < MaxTime
    /\ now' = now + 1
    /\ UNCHANGED <<currentJWT, jwtExpiry, callers, jwtCalls, exchanges, cacheWriters,
                   stores, lastEvent, stVars, gVars, tdVars, rdVars, dpVars>>

\* lines 40-45: the cached token, or the exchange posted
GetJWTToken(c) ==
    /\ callers[c].pc = "idle"
    /\ jwtCalls < MaxCalls
    /\ jwtCalls' = jwtCalls + 1
    /\ IF CacheValid
       THEN /\ lastEvent' = << Event("hit", c, now, currentJWT, 0, 0) >>
            /\ UNCHANGED <<callers, exchanges>>
       ELSE /\ exchanges' = exchanges + 1
            /\ callers' = [ callers EXCEPT ![c] = [ pc |-> "awaitExchange",
                                                     exchange |-> exchanges' ] ]
            /\ lastEvent' = << Event("issue", c, now, 0, exchanges', 0) >>
    /\ UNCHANGED <<currentJWT, jwtExpiry, now, cacheWriters, stores, stVars, gVars,
                   tdVars, rdVars, dpVars>>

\* lines 67-71, as if the two assignments belonged to different responses: the
\* expiry is written only when the cache holds none
ExchangeReturns_TornWrite(c) ==
    /\ callers[c].pc = "awaitExchange"
    /\ currentJWT' = callers[c].exchange
    /\ jwtExpiry' = IF jwtExpiry = 0 THEN now + TokenLifetime ELSE jwtExpiry
    /\ cacheWriters' = << callers[c].exchange,
                          IF jwtExpiry = 0 THEN callers[c].exchange ELSE cacheWriters[2] >>
    /\ lastEvent' = << Event("store", c, now, currentJWT', callers[c].exchange,
                             InFlight(c)) >>
    /\ stores' = Append(stores, lastEvent'[1])
    /\ callers' = [ callers EXCEPT ![c] = [ pc |-> "idle", exchange |-> 0 ] ]
    /\ UNCHANGED <<now, jwtCalls, exchanges, stVars, gVars, tdVars, rdVars, dpVars>>

\* lines 63-71: the response is written to the cache and returned
ExchangeReturns(c) ==
    /\ callers[c].pc = "awaitExchange"
    /\ currentJWT' = callers[c].exchange
    /\ jwtExpiry' = now + TokenLifetime
    /\ cacheWriters' = << callers[c].exchange, callers[c].exchange >>
    /\ lastEvent' = << Event("store", c, now, currentJWT', callers[c].exchange,
                             InFlight(c)) >>
    /\ stores' = Append(stores, lastEvent'[1])
    /\ callers' = [ callers EXCEPT ![c] = [ pc |-> "idle", exchange |-> 0 ] ]
    /\ UNCHANGED <<now, jwtCalls, exchanges, stVars, gVars, tdVars, rdVars, dpVars>>


\* lines 72-75, as if the catch reset the cache before rethrowing
ExchangeFails_ClearsCache(c) ==
    /\ callers[c].pc = "awaitExchange"
    /\ currentJWT' = 0
    /\ jwtExpiry' = 0
    /\ cacheWriters' = <<0, 0>>
    /\ lastEvent' = << Event("fail", c, now, 0, callers[c].exchange, 0) >>
    /\ callers' = [ callers EXCEPT ![c] = [ pc |-> "idle", exchange |-> 0 ] ]
    /\ UNCHANGED <<now, jwtCalls, exchanges, stores, stVars, gVars, tdVars, rdVars, dpVars>>

\* lines 63-65 and 72-75: the exchange fails, the error is rethrown
ExchangeFails(c) ==
    /\ callers[c].pc = "awaitExchange"
    /\ lastEvent' = << Event("fail", c, now, 0, callers[c].exchange, 0) >>
    /\ callers' = [ callers EXCEPT ![c] = [ pc |-> "idle", exchange |-> 0 ] ]
    /\ UNCHANGED <<currentJWT, jwtExpiry, now, jwtCalls, exchanges, cacheWriters, stores,
                   stVars, gVars, tdVars, rdVars, dpVars>>

NextJwt ==
    \/ Tick
    \/ \E c \in Callers : GetJWTToken(c)
    \/ \E c \in Callers : ExchangeReturns(c)
    \/ \E c \in Callers : ExchangeFails(c)

SpecJwt == InitJwt /\ [][NextJwt]_vars

(***************************************************************************)
(* SpecDeploy: POST /api/deploy (index.js 255-392).                        *)
(*                                                                         *)
(* A field of the body is the empty sequence when the request does not     *)
(* carry it, and the sequence of its value otherwise.  dpCalls is the log  *)
(* of the HTTP calls to the orchestrator: the credential exchange of       *)
(* getJWTToken ("apiKeyUser") when the cache holds no valid token, and the *)
(* query or mutation of spaceliftQuery, each with its variables.           *)
(* dpCreated holds one entry per blueprintCreateStack the orchestrator has *)
(* applied: the attempt that asked for it and the ids of its stacks.  A    *)
(* request that fails in transport may have been applied all the same.     *)
(***************************************************************************)
InstanceTypes == { <<>>, << "" >>, << "t3.medium" >> }

Buckets == { <<>>, << "minesible-worlds" >> }

Motds == { <<>>, << "" >>, << "Welcome" >> }

PlayerCounts == { <<>>, << 0 >>, << 20 >> }

\* !field, for a string
FalsyString(field) == field = <<>> \/ field[1] = ""

\* !field, for a number
FalsyNumber(field) == field = <<>> \/ field[1] = 0

\* line 260, as if motd were optional
MissingRequiredFields_MotdOptional(body) ==
    \/ FalsyString(body.instanceType)
    \/ FalsyString(body.s3Bucket)
    \/ FalsyNumber(body.maxPlayers)

\* line 260
MissingRequiredFields(body) ==
    \/ FalsyString(body.instanceType)
    \/ FalsyString(body.s3Bucket)
    \/ FalsyString(body.motd)
    \/ FalsyNumber(body.maxPlayers)

\* Number.prototype.toString of a non-negative integer
DigitOf(d) == <<"0","1","2","3","4","5","6","7","8","9">>[d + 1]

RECURSIVE toString(_)
toString(n) == IF n < 10 THEN << DigitOf(n) >> ELSE Append(toString(n \div 10), DigitOf(n % 10))

TemplateInput(id, value) == [ id |-> id, value |-> value ]

\* lines 293-298
templateInputs(body) ==
    << TemplateInput("instance_type", body.instanceType[1]),
       TemplateInput("s3_bucket", body.s3Bucket[1]),
       TemplateInput("motd", body.motd[1]),
       TemplateInput("max_players", toString(body.maxPlayers[1])) >>

\* lines 322-325
templateInputsWithSpace(body) ==
    Append(templateInputs(body),
           TemplateInput("space_id", "opentofu-01JB2XV5E3ZR3NDTKCN80KS6RH"))

\* lines 335-338
templateInputsWithRootSpace(body) ==
    Append(templateInputs(body), TemplateInput("space_id", "root"))


\* lines 340-345, as if the third attempt named the fixed space once more
VariablesOf_FixedSpaceTwice(step, body) ==
    [ id |-> "BLUEPRINT_ID",
      templateInputs |-> IF step = "blueprint" THEN <<>>
                         ELSE IF step = "create1" THEN templateInputs(body)
                         ELSE templateInputsWithSpace(body) ]

\* lines 286, 313-318, 327-332 and 340-345: the variables of each invocation
VariablesOf(step, body) ==
    CASE step = "blueprint" -> [ id |-> "BLUEPRINT_ID", templateInputs |-> <<>> ]
      [] step = "create1" -> [ id |-> "BLUEPRINT_ID", templateInputs |-> templateInputs(body) ]
      [] step = "create2" ->
           [ id |-> "BLUEPRINT_ID", templateInputs |-> templateInputsWithSpace(body) ]
      [] step = "create3" ->
           [ id |-> "BLUEPRINT_ID", templateInputs |-> templateInputsWithRootSpace(body) ]

\* one HTTP call, with the invocation of spaceliftQuery that makes it; the
\* exchange of the credential carries no variables
DeployCall(op, step) ==
    [ op |-> op, step |-> step,
      variables |-> IF op = "apiKeyUser" THEN <<>> ELSE << VariablesOf(step, dpBody) >>,
      outcome |-> "pending", error |-> "" ]

\* the call awaited has raised message
Failed(log, message) ==
    [ log EXCEPT ![Len(log)].outcome = "error", ![Len(log)].error = message ]

TransportErrorMessage == "socket hang up"

\* lines 93-97: a request fails with errors in its response, which the
\* orchestrator has then not applied, or in transport, before or after the
\* orchestrator has applied it
RequestFailures ==
    { [ message |-> ErrorMessage, applied |-> FALSE ],
      [ message |-> TransportErrorMessage, applied |-> FALSE ],
      [ message |-> TransportErrorMessage, applied |-> TRUE ] }

\* the environment the orchestrator creates for an applied blueprintCreateStack:
\* two stacks with fresh ids
Environment(step, created) ==
    [ step |-> step, stackIds |-> << 2 * Len(created) + 1, 2 * Len(created) + 2 >> ]

\* lines 375-383
DeployCreatedReply(stackIds) ==
    << [ status |-> 200, success |-> TRUE, error |-> "", stackId |-> stackIds[1],
         stackName |-> << "Stack ", stackIds[1] >>, allStackIds |-> stackIds ] >>

DeployReply(status, success, error) ==
    << [ status |-> status, success |-> success, error |-> error ] >>

\* the query or mutation of each step of the handler
DeployOp(step) == IF step = "blueprint" THEN "blueprint" ELSE "blueprintCreateStack"

\* lines 79-91: spaceliftQuery up to its first await, the exchange of getJWTToken when
\* the cache holds no valid token and the query itself otherwise
BeginQuery(step, log) ==
    /\ dpStep' = step
    /\ IF CacheValid
       THEN /\ dpCalls' = Append(log, DeployCall(DeployOp(step), step))
            /\ dpPc' = "awaitQuery"
       ELSE /\ dpCalls' = Append(log, DeployCall("apiKeyUser", step))
            /\ dpPc' = "awaitExchange"

\* lines 350-373 and 385-391: a failed step is the end, except for the first two
\* attempts of the creation
StepFailed(log, message) ==
    IF dpStep = "create1" THEN BeginQuery("create2", log) /\ UNCHANGED dpResponse
    ELSE IF dpStep = "create2" THEN BeginQuery("create3", log) /\ UNCHANGED dpResponse
    ELSE /\ dpResponse' = DeployReply(500, FALSE, message)
         /\ dpPc' = "done"
         /\ dpCalls' = log
         /\ UNCHANGED dpStep

InitDeploy ==
    /\ dpBody \in [ instanceType : InstanceTypes, s3Bucket : Buckets, motd : Motds,
                    maxPlayers : PlayerCounts ]
    /\ dpPc = "start"
    /\ dpStep = ""
    /\ dpCalls = <<>>
    /\ dpResponse = <<>>
    /\ dpCreated = <<>>
    /\ now = 0
    /\ \/ currentJWT = 0 /\ jwtExpiry = 0 /\ cacheWriters = <<0, 0>>
       \/ currentJWT = 1 /\ jwtExpiry = TokenLifetime /\ cacheWriters = <<1, 1>>
    /\ callers = <<>>
    /\ jwtCalls = 0
    /\ exchanges = 0
    /\ stores = <<>>
    /\ lastEvent = <<>>
    /\ StIdle
    /\ GIdle
    /\ TdIdle
    /\ RdIdle

\* lines 256-286
DeployRequest ==
    /\ dpPc = "start"
    /\ IF MissingRequiredFields(dpBody)
       THEN /\ dpResponse' = DeployReply(400, FALSE, "Missing required fields")
            /\ dpPc' = "done"
            /\ UNCHANGED <<dpStep, dpCalls>>
       ELSE BeginQuery("blueprint", dpCalls) /\ UNCHANGED dpResponse
    /\ UNCHANGED <<dpBody, dpCreated, jwtVars, stVars, gVars, tdVars, rdVars>>

\* lines 67-71 and 83: the token is cached and the query is posted with it
DeployExchangeReturns ==
    /\ dpPc = "awaitExchange"
    /\ exchanges' = exchanges + 1
    /\ currentJWT' = exchanges' + 1
    /\ jwtExpiry' = now + TokenLifetime
    /\ cacheWriters' = << currentJWT', currentJWT' >>
    /\ dpCalls' = Append(Settled(dpCalls, "ok"), DeployCall(DeployOp(dpStep), dpStep))
    /\ dpPc' = "awaitQuery"
    /\ UNCHANGED <<dpBody, dpStep, dpResponse, dpCreated, now, callers, jwtCalls, stores,
                   lastEvent, stVars, gVars, tdVars, rdVars>>

\* lines 72-75 and 99-102: spaceliftQuery rethrows the failure of the exchange
DeployExchangeFails ==
    /\ dpPc = "awaitExchange"
    /\ \E message \in { ErrorMessage, TransportErrorMessage } :
         StepFailed(Failed(dpCalls, message), message)
    /\ UNCHANGED <<dpBody, dpCreated, jwtVars, stVars, gVars, tdVars, rdVars>>


\* lines 93-102, as if a failed request were posted a second time before the throw
DeployQueryFails_PostsAgain ==
    /\ dpPc = "awaitQuery"
    /\ IF Cardinality({ i \in DOMAIN dpCalls :
                          dpCalls[i].step = dpStep /\ dpCalls[i].op # "apiKeyUser" }) = 1
       THEN /\ dpCalls' = Append(Settled(dpCalls, "error"),
                                 DeployCall(DeployOp(dpStep), dpStep))
            /\ UNCHANGED <<dpPc, dpStep, dpResponse>>
       ELSE StepFailed(Settled(dpCalls, "error"), ErrorMessage)
    /\ UNCHANGED <<dpBody, dpCreated, jwtVars, stVars, gVars, tdVars, rdVars>>

\* lines 93-102
DeployQueryFails ==
    /\ dpPc = "awaitQuery"
    /\ \E failure \in RequestFailures :
         /\ StepFailed(Failed(dpCalls, failure.message), failure.message)
         /\ dpCreated' = IF failure.applied /\ dpStep # "blueprint"
                         THEN Append(dpCreated, Environment(dpStep, dpCreated))
                         ELSE dpCreated
    /\ UNCHANGED <<dpBody, jwtVars, stVars, gVars, tdVars, rdVars>>

\* lines 286-287 and 350-383
DeployQueryReturns ==
    /\ dpPc = "awaitQuery"
    /\ IF dpStep = "blueprint"
       THEN BeginQuery("create1", Settled(dpCalls, "ok")) /\ UNCHANGED <<dpResponse, dpCreated>>
       ELSE /\ dpCreated' = Append(dpCreated, Environment(dpStep, dpCreated))
            /\ dpResponse' = DeployCreatedReply(dpCreated'[Len(dpCreated')].stackIds)
            /\ dpPc' = "done"
            /\ dpCalls' = Settled(dpCalls, "ok")
            /\ UNCHANGED dpStep
    /\ UNCHANGED <<dpBody, jwtVars, stVars, gVars, tdVars, rdVars>>

NextDeploy ==
    \/ DeployRequest
    \/ DeployExchangeReturns
    \/ DeployExchangeFails
    \/ DeployQueryFails
    \/ DeployQueryReturns

SpecDeploy == InitDeploy /\ [][NextDeploy]_vars

(***************************************************************************)
(* Properties of the teardown                                              *)
(***************************************************************************)
\* the stack of the request has been fetched and carries the label
TargetAccepted == stackResult # <<>> /\ HasMinesibleLabel(stackResult[1])

DirectMode == TargetAccepted /\ IsDirectDeletion(stackResult[1])

GroupMode == TargetAccepted /\ ~IsDirectDeletion(stackResult[1])

BothResolved == ansibleStack # <<>> /\ openTofuStack # <<>>

IsDestroyOf(call, id) == call.op = "stackDelete" /\ call.id = id

DestroyCalls == { i \in DOMAIN calls : calls[i].op = "stackDelete" }

Replied == pc = "done" /\ response # <<>>

\* C1: in a group-mode teardown that resolved both members, the destroy mutation of
\* the Ansible stack has been issued and has returned or failed before the destroy
\* mutation of the OpenTofu stack is issued.
C1_AnsibleDestroyPrecedesOpenTofu ==
    (GroupMode /\ BothResolved) =>
        \A j \in DOMAIN calls :
            IsDestroyOf(calls[j], openTofuStack[1].id) =>
                \E i \in 1..(j - 1) :
                    /\ IsDestroyOf(calls[i], ansibleStack[1].id)
                    /\ calls[i].outcome \in { "ok", "error" }

C1_Witness ==
    /\ GroupMode
    /\ BothResolved
    /\ \E j \in DOMAIN calls : IsDestroyOf(calls[j], openTofuStack[1].id)

AnsibleDestroyFailed ==
    \E i \in DOMAIN calls :
        IsDestroyOf(calls[i], ansibleStack[1].id) /\ calls[i].outcome = "error"

OpenTofuDestroyIssuedAfterAnsible ==
    \E i, j \in DOMAIN calls :
        /\ i < j
        /\ IsDestroyOf(calls[i], ansibleStack[1].id)
        /\ IsDestroyOf(calls[j], openTofuStack[1].id)

OpenTofuDestroyOutcome ==
    calls[CHOOSE j \in DOMAIN calls : IsDestroyOf(calls[j], openTofuStack[1].id)].outcome

ErrorEntries(results) == { k \in DOMAIN results : results[k].error # "" }

\* C2 as stated: in a group-mode teardown with both members resolved whose Ansible
\* destroy failed, the OpenTofu destroy is still issued afterwards and the reply is
\* a 200 with success: true whose destroyResults holds exactly one entry carrying
\* an error, the Ansible stack's, next to the OpenTofu stack's entry.
C2_ExactlyOneErrorEntry ==
    (Replied /\ GroupMode /\ BothResolved /\ AnsibleDestroyFailed) =>
        /\ OpenTofuDestroyIssuedAfterAnsible
        /\ response[1].status = 200
        /\ response[1].success
        /\ LET results == response[1].destroyResults
           IN  /\ Cardinality(ErrorEntries(results)) = 1
               /\ \E k \in ErrorEntries(results) :
                      results[k].stack = "ansible" /\ results[k].stackId = ansibleStack[1].id
               /\ \E k \in DOMAIN results :
                      results[k].stack = "opentofu" /\ results[k].stackId = openTofuStack[1].id

\* C2 amended: ... the reply is a 200 with success: true whose destroyResults is the
\* Ansible stack's entry, carrying the error, followed by the OpenTofu stack's
\* entry, which carries an error exactly when the OpenTofu destroy failed as well
\* (so the Ansible entry is the only error entry when the OpenTofu destroy succeeds).
C2_AnsibleErrorThenOpenTofuEntry ==
    (Replied /\ GroupMode /\ BothResolved /\ AnsibleDestroyFailed) =>
        /\ OpenTofuDestroyIssuedAfterAnsible
        /\ response[1].status = 200
        /\ response[1].success
        /\ LET results == response[1].destroyResults
           IN  /\ Len(results) = 2
               /\ results[1] = NotDeleted("ansible", ansibleStack[1].id, ErrorMessage)
               /\ results[2].stack = "opentofu"
               /\ results[2].stackId = openTofuStack[1].id
               /\ results[2].deleted = (OpenTofuDestroyOutcome = "ok")
               /\ (results[2].error # "") = (OpenTofuDestroyOutcome = "error")

C2_Witness ==
    /\ Replied
    /\ GroupMode
    /\ BothResolved
    /\ AnsibleDestroyFailed
    /\ OpenTofuDestroyIssuedAfterAnsible
    /\ OpenTofuDestroyOutcome = "ok"

\* C3: no destroy mutation is issued while a triggered save-world task is still
\* running.
C3_NoDestroyWhileSaveRuns == ~(taskState = "running" /\ DestroyCalls # {})

\* the labelled Ansible stacks that carry the trailing token of the target
ConfigurationUnitsOf(target) ==
    { st \in Range(stacks) :
        /\ HasMinesibleLabel(st)
        /\ includes(toLowerCase(st.name), sansible)
        /\ splitPop(st.name) = splitPop(target.name) }

\* C4: with saveWorld = true and a labelled target whose environment has its
\* (one) configuration unit in state FINISHED, a save-world task has been triggered
\* on that unit before any destroy mutation is issued, in direct mode as in group
\* mode.
C4_SaveTriggeredBeforeAnyDestroy ==
    (saveWorld /\ TargetAccepted) =>
        \A c \in ConfigurationUnitsOf(stackResult[1]) :
            (ConfigurationUnitsOf(stackResult[1]) = { c } /\ c.state = "FINISHED") =>
                \A j \in DestroyCalls :
                    \E i \in 1..(j - 1) :
                        calls[i].op = "taskTrigger" /\ calls[i].id = c.id

\* the role groupStacksByBlueprint gives a stack (lines 486, 504, 515)
RoleOf(name) ==
    IF includes(toLowerCase(name), sopentofu) THEN "opentofu"
    ELSE IF includes(toLowerCase(name), sansible) THEN "ansible"
    ELSE "opentofu"

\* C5: in a direct-mode teardown of a provisioning unit with a blueprint token,
\* every labelled configuration unit that the grouping puts in the group of the
\* target has had its destroy mutation issued before the target's is issued.
C5_GroupedAnsibleDestroyedFirst ==
    (DirectMode /\ IsOpentofuDeletion(stackResult[1]) /\ blueprintMatch(stackResult[1].name)) =>
        \A c \in Range(stacks) :
            ( /\ HasMinesibleLabel(c)
              /\ RoleOf(c.name) = "ansible"
              /\ blueprintMatch(c.name)
              /\ GroupKeyOf(c.name) = GroupKeyOf(stackResult[1].name) ) =>
                \A j \in DOMAIN calls :
                    IsDestroyOf(calls[j], stackResult[1].id) =>
                        \E i \in 1..(j - 1) : IsDestroyOf(calls[i], c.id)

\* C6: a direct-mode teardown of a labelled provisioning unit that has replied has
\* issued the destroy mutation of the targeted stack and has not replied with a
\* failure envelope, whatever happened to the lookup and the destroy of the
\* dependent Ansible stack.
C6_TargetDestroyAlwaysIssued ==
    (Replied /\ DirectMode /\ IsOpentofuDeletion(stackResult[1])) =>
        /\ \E j \in DOMAIN calls : IsDestroyOf(calls[j], stackResult[1].id)
        /\ response[1].success

(***************************************************************************)
(* Properties of the aggregate status and of the grouping                  *)
(***************************************************************************)
\* the precedence table, rule by rule, top-down
RuleResult == << "Ready", "Failed", "Pending Confirmation", "Planning", "Deploying",
                 "Incomplete", "In Progress" >>

RuleMatches(i, p, c) ==
    CASE i = 1 -> p = "FINISHED" /\ c = "FINISHED"
      [] i = 2 -> "FAILED" \in {p, c}
      [] i = 3 -> "UNCONFIRMED" \in {p, c}
      [] i = 4 -> "PLANNING" \in {p, c}
      [] i = 5 -> "APPLYING" \in {p, c}
      [] i = 6 -> "Missing" \in {p, c}
      [] OTHER -> TRUE

FirstMatchingRule(p, c) == SetMin({ i \in DOMAIN RuleResult : RuleMatches(i, p, c) })

\* C7: for every pair of statuses, determineOverallStatus returns the result of the
\* first rule of the table, read top-down, that the pair matches.
C7_StatusIsFirstMatchingRule ==
    stDone => stResult = RuleResult[FirstMatchingRule(stOpentofu, stAnsible)]

\* a pair that two rules match (APPLYING and Missing) has been given the earlier one
C7_Witness ==
    /\ stDone
    /\ stOpentofu = "Missing"
    /\ stAnsible = "APPLYING"
    /\ stResult = "Deploying"

GroupSet(groups) == Range(groups)

MembersOf(g) == Range(g.opentofu) \cup Range(g.ansible)

ApplyingWithoutAnsible(g) ==
    /\ g.opentofu # <<>>
    /\ g.opentofu[1].status = "APPLYING"
    /\ g.ansible = <<>>

\* C8 as stated: a group whose provisioning unit is APPLYING and whose configuration
\* unit is absent has aggregate status Incomplete.
C8_ApplyingMissingIsIncomplete ==
    gDone => \A g \in GroupSet(gGroups) : ApplyingWithoutAnsible(g) => g.status = "Incomplete"

\* C8 amended: a group whose provisioning unit is APPLYING and whose configuration
\* unit is absent has aggregate status Deploying, the APPLYING rule preceding the
\* Missing rule.
C8_ApplyingMissingIsDeploying ==
    gDone => \A g \in GroupSet(gGroups) : ApplyingWithoutAnsible(g) => g.status = "Deploying"

C8_Witness == gDone /\ \E g \in GroupSet(gGroups) : ApplyingWithoutAnsible(g)

AllBlueprint(stks) == \A i \in DOMAIN stks : blueprintMatch(stks[i].name)

TokensOf(stks) == { blueprintToken(stks[i].name) : i \in DOMAIN stks }

Orderings(n) == { p \in [1..n -> 1..n] : Injective(p) }

Permuted(stks, p) == [ i \in DOMAIN stks |-> stks[p[i]] ]

\* which unit ids are members of which group key
Assignment(groups) ==
    UNION { { <<g.id, m.id>> : m \in MembersOf(g) } : g \in GroupSet(groups) }

\* C9: for units whose names all end in Blueprint-<token>, every ordering of the
\* input gives exactly one group per distinct token, keyed by the token, with every
\* unit attached to the group of its token, and the same assignment of units to
\* groups as every other ordering.
C9_OneGroupPerTokenAnyOrder ==
    (gDone /\ AllBlueprint(gStacks)) =>
        \A p \in Orderings(Len(gStacks)) :
            LET out == groupStacksByBlueprint(Permuted(gStacks, p))
            IN  /\ { g.id : g \in GroupSet(out) } = TokensOf(gStacks)
                /\ Len(out) = Cardinality(TokensOf(gStacks))
                /\ \A i \in DOMAIN gStacks :
                       <<blueprintToken(gStacks[i].name), gStacks[i].id>> \in Assignment(out)
                /\ Assignment(out) = Assignment(gGroups)

HasBlueprintUnit(g) == \E m \in MembersOf(g) : blueprintMatch(m.name)

\* C10: in the returned list every group containing a blueprint-token unit comes
\* before every group containing none, and within each of the two partitions the
\* groups ascend by display name (in the order of the comparator), for every input.
C10_BlueprintGroupsFirstThenByName ==
    gDone =>
        \A i, j \in DOMAIN gGroups :
            /\ (HasBlueprintUnit(gGroups[i]) /\ ~HasBlueprintUnit(gGroups[j])) => i < j
            /\ (i < j /\ HasBlueprintUnit(gGroups[i]) = HasBlueprintUnit(gGroups[j]))
                   => localeCompare(gGroups[i].name, gGroups[j].name) <= 0

(***************************************************************************)
(* Properties of the read handlers                                         *)
(***************************************************************************)
sOpentofuInfix == <<"-">> \o sOpentofu \o <<"-">> \o sBlueprintDash

sAnsibleInfix == <<"-">> \o sAnsible \o <<"-">> \o sBlueprintDash

\* name is <p><infix><t> with <t> a token of letters and digits
NamedAs(name, infix) ==
    /\ TrailingAlnumLen(name) >= 1
    /\ endsWith(SubSeq(name, 1, Len(name) - TrailingAlnumLen(name)), infix)

PrefixOf(name, infix) == SubSeq(name, 1, Len(name) - TrailingAlnumLen(name) - Len(infix))

\* o is <p>-Opentofu-Blueprint-<t> and a is <p>-Ansible-Blueprint-<t>
IsPair(o, a) ==
    /\ NamedAs(o.name, sOpentofuInfix)
    /\ NamedAs(a.name, sAnsibleInfix)
    /\ PrefixOf(o.name, sOpentofuInfix) = PrefixOf(a.name, sAnsibleInfix)
    /\ blueprintToken(o.name) = blueprintToken(a.name)

ExposesIp(stack) == \E i \in DOMAIN stack.outputs : stack.outputs[i].id = "ec2_ip"

ListReplied == rdPc = "done" /\ rdKind = "list" /\ rdResponse[1].status = 200

LabelledUnits == { st \in Range(account) : HasMinesibleLabel(st) }

\* the labelled units of the account are the pair o, a, both FINISHED, o exposing ec2_ip
PairListed(o, a) ==
    /\ ListReplied
    /\ LabelledUnits = { o, a }
    /\ IsPair(o, a)
    /\ o.state = "FINISHED"
    /\ a.state = "FINISHED"
    /\ ExposesIp(o)

OneReadyGroup(o) ==
    LET groups == rdResponse[1].servers[1]
    IN  /\ Len(groups) = 1
        /\ groups[1].id = blueprintToken(o.name)
        /\ groups[1].status = "Ready"
        /\ groups[1].ip = OutputValue(o.outputs, "ec2_ip")

MentionsOpentofu(s) == includes(toLowerCase(s), sopentofu)

CallMade == lastEvent # <<>> /\ lastEvent[1].kind \in { "hit", "issue" }

\* the stores whose fifty minutes have not elapsed at the time of the latest event
StoresInWindow ==
    { i \in DOMAIN stores : lastEvent[1].at < stores[i].at + TokenLifetime }

\* C12 as stated: a call made strictly less than fifty minutes after a response was
\* stored is answered from the cache, with the credential of that response and
\* without posting an exchange.
C12_CallInWindowReturnsThatCredential ==
    CallMade =>
        \A i \in StoresInWindow :
            /\ lastEvent[1].kind = "hit"
            /\ lastEvent[1].value = stores[i].value

\* C12 amended: such a call is answered from the cache without posting an exchange,
\* with the credential stored last; that is the credential of the response stored
\* at t whenever no other exchange was in flight when it was stored.
C12_CallInWindowReturnsCachedCredential ==
    CallMade =>
        \A i \in StoresInWindow :
            /\ lastEvent[1].kind = "hit"
            /\ lastEvent[1].value = stores[Len(stores)].value
            /\ stores[i].inflight = 0 => lastEvent[1].value = stores[i].value

\* two calls ran their exchanges side by side, and a later call inside the window of
\* both is answered with the credential stored last
C12_Witness ==
    /\ CallMade
    /\ lastEvent[1].kind = "hit"
    /\ Len(stores) = 2
    /\ stores[1].inflight = 1
    /\ StoresInWindow = { 1, 2 }
    /\ lastEvent[1].value = stores[2].value

Awaiting == { c \in Callers : callers[c].pc = "awaitExchange" }

StoreOf(exchange) == stores[CHOOSE i \in DOMAIN stores : stores[i].exchange = exchange]

\* C13: whatever the interleaving of the callers, a call posts at most one exchange
\* (the exchanges posted never outnumber the calls, and the callers that wait for a
\* response wait for different exchanges); currentJWT and jwtExpiry are both unset,
\* or both written from the response of one and the same exchange; and a value
\* returned to a caller is the credential of a response that was stored.
C13_DuplicateExchangesNeverCorrupt ==
    /\ exchanges <= jwtCalls
    /\ \A c, d \in Awaiting : c # d => callers[c].exchange # callers[d].exchange
    /\ \/ currentJWT = 0 /\ jwtExpiry = 0 /\ cacheWriters = <<0, 0>>
       \/ /\ currentJWT # 0
          /\ jwtExpiry # 0
          /\ cacheWriters[1] # 0
          /\ cacheWriters[1] = cacheWriters[2]
          /\ currentJWT = StoreOf(cacheWriters[1]).value
          /\ jwtExpiry = StoreOf(cacheWriters[1]).at + TokenLifetime
    /\ (lastEvent # <<>> /\ lastEvent[1].kind \in { "hit", "store" }) =>
           /\ lastEvent[1].value # 0
           /\ \E i \in DOMAIN stores : stores[i].value = lastEvent[1].value

\* two callers saw an empty cache, both exchanges were answered at different times,
\* and the cache holds the response stored last
C13_Witness ==
    /\ Len(stores) = 2
    /\ stores[1].inflight = 1
    /\ stores[1].at < stores[2].at
    /\ cacheWriters = << stores[2].exchange, stores[2].exchange >>
    /\ jwtExpiry = stores[2].at + TokenLifetime

\* the stack GET /api/servers/:serverId asks for, when the account has it
RequestedUnits == { st \in Range(account) : st.id = rdServerId }

\* the query of the handler was answered, and the handler has replied
GetAnswered == rdPc = "done" /\ rdKind = "get" /\ rdResponse[1].error # ErrorMessage

\* C14: GET /api/servers/:serverId for a stack that exists and does not carry the
\* label minesible (its labels being empty, others only, or null) is answered with
\* a 404 whose body is {success: false, error: "Server not found"}.
C14_UnlabelledServerIsNotFound ==
    GetAnswered =>
        \A st \in RequestedUnits :
            ~HasMinesibleLabel(st) =>
                /\ rdResponse[1].status = 404
                /\ ~rdResponse[1].success
                /\ rdResponse[1].error = "Server not found"

(***************************************************************************)
(* Further properties of the teardown                                      *)
(***************************************************************************)
\* the stack query of the handler has been answered
TargetFetched == Len(calls) >= 1 /\ calls[1].outcome = "ok"

TargetRejected == TargetFetched /\ ~TargetAccepted

MutatingCalls == { i \in DOMAIN calls : calls[i].op \in { "stackDelete", "taskTrigger" } }

\* C15: a teardown whose target does not exist, or exists without the label minesible
\* (labels empty, others only, or null), replies with a 404 failure envelope, and
\* issues no destroy mutation and no save-world trigger.
C15_RejectedTargetIsNotFound ==
    TargetRejected =>
        /\ MutatingCalls = {}
        /\ Replied
        /\ response[1].status = 404
        /\ ~response[1].success

\* no call site of the handler has sent its call twice
NoStepReissued ==
    \A i, j \in DOMAIN calls : (i # j) => calls[i].site # calls[j].site

\* C16: if every awaited orchestrator call returns or fails and every timer fires,
\* the handler eventually replies; it replies once (a response, once sent, is never
\* replaced); and it issues at most five orchestrator calls (the stack query, the
\* stacks query, the save-world trigger and two destroy mutations), none of them a
\* second time.
C16_TeardownTerminates ==
    /\ <>Replied
    /\ [][response # <<>> => response' = response]_vars
    /\ [](NoStepReissued /\ Len(calls) <= 5)

\* a group teardown that went through all its steps, two of which failed
C16_Witness ==
    /\ Replied
    /\ Len(calls) = 5
    /\ \E i \in DOMAIN calls : calls[i].op = "taskTrigger" /\ calls[i].outcome = "error"
    /\ \E i \in DOMAIN calls : calls[i].site = "groupAnsible" /\ calls[i].outcome = "error"

\* the destroy attempts and save-world triggers the handler has executed
ExecutedSteps(outcome) == { i \in MutatingCalls : calls[i].outcome = outcome }

EntriesTagged(updates, type) == { k \in DOMAIN updates : updates[k].type = type }

\* the teardown has run its sequence to the end and replied
SequenceCompleted == Replied /\ TargetAccepted /\ response[1].status = 200

\* the reply carries a status log with an entry of its own, tagged success, for
\* every step that succeeded and an entry of its own, tagged error, for every step
\* that failed
StatusLogCoversSteps ==
    /\ response[1].statusUpdates # <<>>
    /\ LET updates == response[1].statusUpdates[1]
       IN  /\ Cardinality(EntriesTagged(updates, "success")) >= Cardinality(ExecutedSteps("ok"))
           /\ Cardinality(EntriesTagged(updates, "error")) >= Cardinality(ExecutedSteps("error"))

\* C17: a teardown that ran its sequence to the end returns a status log in which
\* every executed step (destroy attempt, save-world trigger) has its own entry,
\* tagged success or error as the step went, in direct mode and in group mode.
C17_StatusLogReturnedInBothModes == SequenceCompleted => StatusLogCoversSteps

(***************************************************************************)
(* Properties of the deployment                                            *)
(***************************************************************************)
\* the request does not carry one of the four fields
FieldMissing ==
    \/ dpBody.instanceType = <<>>
    \/ dpBody.s3Bucket = <<>>
    \/ dpBody.motd = <<>>
    \/ dpBody.maxPlayers = <<>>

DeployReplied == dpPc = "done" /\ dpResponse # <<>>

\* C18: a deploy request that lacks instanceType, s3Bucket, motd or maxPlayers never
\* makes a call to the orchestrator (no credential exchange, no blueprint query, no
\* creation mutation), and is answered with a 400 failure envelope.
C18_MissingFieldIs400WithoutCalls ==
    (dpPc # "idle" /\ FieldMissing) =>
        /\ dpCalls = <<>>
        /\ dpPc \in { "start", "done" }
        /\ DeployReplied => (dpResponse[1].status = 400 /\ ~dpResponse[1].success)

\* a request that lacks motd only, arriving with no cached credential, has been
\* answered
C18_Witness ==
    /\ DeployReplied
    /\ dpBody.motd = <<>>
    /\ ~FalsyString(dpBody.instanceType)
    /\ ~FalsyString(dpBody.s3Bucket)
    /\ ~FalsyNumber(dpBody.maxPlayers)
    /\ currentJWT = 0
    /\ dpResponse[1].status = 400

\* the stacks query of the group branch has been answered: both members are resolved
GroupLookupAnswered ==
    GroupMode /\ \E i \in DOMAIN calls : calls[i].site = "groupLookup" /\ calls[i].outcome = "ok"

SaveTriggers == { i \in DOMAIN calls : calls[i].op = "taskTrigger" }

\* C19: in a group-mode teardown, if saveWorld is true and the Ansible stack is
\* resolved in state FINISHED, one save-world task has been triggered, on that
\* stack and ahead of every destroy mutation; otherwise none has been triggered.
C19_SaveTriggeredOnceIffRequestedAndFinished ==
    GroupLookupAnswered =>
        IF saveWorld /\ ansibleStack # <<>> /\ ansibleStack[1].state = "FINISHED"
        THEN /\ Cardinality(SaveTriggers) = 1
             /\ \A i \in SaveTriggers :
                    /\ calls[i].id = ansibleStack[1].id
                    /\ \A j \in DestroyCalls : i < j
        ELSE SaveTriggers = {}

\* a group teardown has saved the world and then destroyed both stacks
C19_Witness ==
    /\ Replied
    /\ GroupLookupAnswered
    /\ saveWorld
    /\ BothResolved
    /\ Cardinality(SaveTriggers) = 1
    /\ Cardinality(DestroyCalls) = 2

SaveTriggerFailed == \E i \in SaveTriggers : calls[i].outcome = "error"

\* the sequence went on after the failed trigger: both resolved stacks have had
\* their destroy mutation issued, the Ansible stack's first, and the reply is a
\* success envelope
SequenceContinued ==
    /\ response[1].status = 200
    /\ response[1].success
    /\ \E i \in DestroyCalls : calls[i].id = ansibleStack[1].id
    /\ openTofuStack # <<>> => OpenTofuDestroyIssuedAfterAnsible

\* the reply has an error record, in destroyResults or in the status log, for every
\* step that failed
FailuresRecorded ==
    LET logged == IF response[1].statusUpdates = <<>> THEN {}
                  ELSE EntriesTagged(response[1].statusUpdates[1], "error")
    IN  Cardinality(ErrorEntries(response[1].destroyResults)) + Cardinality(logged)
            >= Cardinality(ExecutedSteps("error"))

\* C20: in a group-mode teardown whose save-world trigger failed, the destroy
\* mutations of the resolved stacks are still issued in order, the reply is a
\* success: true envelope, and the failure is recorded in the returned results or
\* status log.
C20_SaveFailureRecordedAndSequenceContinues ==
    (Replied /\ GroupLookupAnswered /\ SaveTriggerFailed) =>
        /\ SequenceContinued
        /\ FailuresRecorded

(***************************************************************************)
(* Teardown: settle delays, sequencing and the reply                       *)
(***************************************************************************)
ConfigurationSites == { "dependent", "groupAnsible" }

ProvisioningSites == { "direct", "groupOpenTofu" }

\* this step issues the destroy mutation of the provisioning-role unit
IssuesProvisioningDestroy ==
    /\ Len(calls') = Len(calls) + 1
    /\ calls'[Len(calls')].op = "stackDelete"
    /\ calls'[Len(calls')].site \in ProvisioningSites

\* the destroy mutation of the configuration-role unit has returned without error
ConfigurationDestroySucceeded(log) ==
    \E i \in DOMAIN log :
        /\ log[i].op = "stackDelete"
        /\ log[i].site \in ConfigurationSites
        /\ log[i].outcome = "ok"

\* C21: in direct and in group mode, when the destroy of the configuration-role
\* unit has succeeded, the destroy of the provisioning-role unit is issued only by
\* the step in which the 10 second timer fires, never by the step in which the
\* configuration destroy returns: a settle delay lies between the two mutations.
C21_SettleDelayBetweenDestroys ==
    [][ (IssuesProvisioningDestroy /\ ConfigurationDestroySucceeded(calls'))
            => pc \in { "dependentSettle", "groupSettle" } ]_vars

C21_Witness ==
    /\ pc = "awaitDirectDelete"
    /\ Len(calls) = 4
    /\ calls[3].site = "dependent"
    /\ calls[3].outcome = "ok"
    /\ calls[4].site = "direct"

\* the handler is suspended on a setTimeout
SettleStates == { "dependentSettle", "saveSettle", "groupSettle" }

\* the handler is suspended on a spaceliftQuery
AwaitStates ==
    { "awaitGetStack", "awaitDependentLookup", "awaitDependentDelete", "awaitDirectDelete",
      "awaitGroupLookup", "awaitSaveTrigger", "awaitGroupAnsibleDelete",
      "awaitGroupOpenTofuDelete" }

Outstanding == { i \in DOMAIN calls : calls[i].outcome = "pending" }

\* C22: within one teardown request at most one orchestrator call or settle delay
\* is outstanding at any moment: only the call issued last can be pending, it is
\* pending exactly while the handler awaits it, no call is pending while a timer
\* runs or after the reply, and so every call is issued after all earlier steps
\* have returned or failed.
C22_StepsStrictlySequential ==
    /\ Outstanding \subseteq { Len(calls) }
    /\ (Outstanding # {}) <=> (pc \in AwaitStates)
    /\ pc \in SettleStates => Outstanding = {}
    /\ pc \in { "start", "done" } \cup SettleStates \cup AwaitStates

C22_Witness ==
    /\ pc = "groupSettle"
    /\ Len(calls) = 4
    /\ calls[3].op = "taskTrigger"
    /\ calls[4].site = "groupAnsible"

\* the destroy mutations of the call log, in the order of their issue
RECURSIVE DestroysOf(_)
DestroysOf(log) ==
    IF log = <<>> THEN <<>>
    ELSE IF Head(log).op = "stackDelete" THEN << Head(log) >> \o DestroysOf(Tail(log))
    ELSE DestroysOf(Tail(log))

\* the unit of the account with the id of a call
UnitOf(id) == CHOOSE st \in Range(stacks) : st.id = id

\* the entry describes the mutation: role and id of its unit, deleted exactly when
\* the mutation returned, the error message otherwise
EntryDescribes(entry, call) ==
    /\ entry.stack = RoleOf(UnitOf(call.id).name)
    /\ entry.stackId = call.id
    /\ entry.deleted = (call.outcome = "ok")
    /\ entry.error = (IF call.outcome = "ok" THEN "" ELSE ErrorMessage)

\* C23: in every reply with success: true, destroyResults holds exactly one entry
\* for each destroy mutation that was issued, in the order of issue; the entry names
\* the role and the id of the unit and is marked deleted if and only if the mutation
\* succeeded, and carries the error message otherwise.
C23_OneEntryPerDestroyInOrder ==
    (Replied /\ response[1].success) =>
        LET results  == response[1].destroyResults
            destroys == DestroysOf(calls)
        IN  /\ Len(results) = Len(destroys)
            /\ \A k \in DOMAIN results : EntryDescribes(results[k], destroys[k])

C23_Witness ==
    /\ Replied
    /\ response[1].success
    /\ Len(response[1].destroyResults) = 2
    /\ response[1].destroyResults[1].deleted
    /\ response[1].destroyResults[2].error = ErrorMessage

\* the save-world task trigger call was made and returned without error
SaveTriggerSucceeded ==
    \E i \in DOMAIN calls : calls[i].op = "taskTrigger" /\ calls[i].outcome = "ok"

\* C24: in a teardown reply worldSaved is true if and only if saveWorld was
\* requested and the save-world trigger call succeeded during the teardown; it is
\* not true in direct mode, after a failed trigger, when the configuration unit was
\* not available for saving, or when saveWorld was not requested.
C24_WorldSavedIffTriggerSucceeded ==
    Replied =>
        /\ response[1].worldSaved <=> (saveWorld /\ SaveTriggerSucceeded)
        /\ DirectMode => ~response[1].worldSaved
        /\ (\E i \in DOMAIN calls : calls[i].op = "taskTrigger" /\ calls[i].outcome = "error")
               => ~response[1].worldSaved
        /\ (GroupMode /\ ~ShouldSaveWorld(saveWorld, ansibleStack)) => ~response[1].worldSaved
        /\ ~saveWorld => ~response[1].worldSaved

C24_Witness ==
    /\ Replied
    /\ response[1].worldSaved
    /\ saveWorld
    /\ SaveTriggerSucceeded

(***************************************************************************)
(* Further properties of the grouping                                      *)
(***************************************************************************)
\* the groups that hold the unit as their opentofu or their ansible member
GroupsHolding(groups, unit) ==
    { i \in DOMAIN groups :
        \/ groups[i].opentofu # <<>> /\ groups[i].opentofu[1].id = unit.id
        \/ groups[i].ansible # <<>> /\ groups[i].ansible[1].id = unit.id }

\* C25: for every input list, every unit of the input is the opentofu or the
\* ansible member of exactly one returned group, whatever its name: without a role
\* marker, with an empty normalized key, or sharing key and role with another unit.
C25_NoUnitDropped ==
    gDone =>
        \A k \in DOMAIN gStacks : Cardinality(GroupsHolding(gGroups, gStacks[k])) = 1

\* the positions of the input whose unit is attached to the group, in input order
AttachedTo(g) == { k \in DOMAIN gStacks : GroupKeyOf(gStacks[k].name) = g.id }

InputWithId(i) == gStacks[CHOOSE k \in DOMAIN gStacks : gStacks[k].id = i]

\* C26 as stated: the created timestamp of a returned group is that of the first
\* unit attached to it in input order; no later unit of either role overwrites it.
C26_CreatedIsFirstAttached ==
    gDone =>
        \A i \in DOMAIN gGroups :
            gGroups[i].created = gStacks[SetMin(AttachedTo(gGroups[i]))].createdAt

\* C26 amended: the created timestamp of a returned group is that of its opentofu
\* member (the unit attached last under that role, with the marker or without any)
\* whenever it has one, also when an ansible unit was attached before it; only a
\* group of ansible units alone keeps the timestamp of the first unit attached.
C26_CreatedIsOpentofuMembers ==
    gDone =>
        \A i \in DOMAIN gGroups :
            gGroups[i].created =
                IF gGroups[i].opentofu # <<>>
                THEN InputWithId(gGroups[i].opentofu[1].id).createdAt
                ELSE gStacks[SetMin(AttachedTo(gGroups[i]))].createdAt

\* an ansible unit was attached first, an opentofu unit after it
C26_Witness ==
    /\ gDone
    /\ \E i \in DOMAIN gGroups :
         /\ gGroups[i].opentofu # <<>>
         /\ gGroups[i].ansible # <<>>
         /\ gStacks[SetMin(AttachedTo(gGroups[i]))].id = gGroups[i].ansible[1].id
         /\ gGroups[i].created = InputWithId(gGroups[i].opentofu[1].id).createdAt

\* the output value when there is one, else the template input when there is one,
\* else the sentinel
OutputThenInput(stack, outputId, inputKey) ==
    OrElse(OutputValue(stack.outputs, outputId),
           OrElse(InputValue(stack.blueprintInputs, inputKey), "unknown"))

PassThroughExpected(stack) ==
    [ ip           |-> OutputThenInput(stack, "ec2_ip", "ec2_ip"),
      instanceType |-> OutputThenInput(stack, "instance_type", "instance_type"),
      maxPlayers   |-> OutputThenInput(stack, "max_players", "max_players") ]

PassThroughOf(g) == [ ip |-> g.ip, instanceType |-> g.instanceType, maxPlayers |-> g.maxPlayers ]

\* C27: once an opentofu unit is attached, ip, instanceType and maxPlayers of its
\* group each hold the unit's output when it exists, else the declared template
\* input when it exists, else 'unknown', and none of them is null: in the groups
\* index.js returns and in the fields test.js computes for the same unit.
C27_PassThroughOutputThenInputThenUnknown ==
    gDone =>
        \A i \in DOMAIN gGroups :
            (gGroups[i].opentofu # <<>>) =>
                LET unit == InputWithId(gGroups[i].opentofu[1].id)
                IN  /\ PassThroughOf(gGroups[i]) = PassThroughExpected(unit)
                    /\ gGroups[i].ip # Null
                    /\ PassThroughOfTest(unit) = PassThroughExpected(unit)

\* the state of the input unit that is the member, 'Missing' for an absent member
StateOfMember(m) == IF m = <<>> THEN "Missing" ELSE InputWithId(m[1].id).state

\* C28: the status of every returned group is determineOverallStatus of the states
\* of its final opentofu and ansible members, 'Missing' for an absent one, in
\* whatever order the members were attached, and is never the placeholder 'Unknown'.
C28_StatusIsFunctionOfFinalMembers ==
    gDone =>
        \A i \in DOMAIN gGroups :
            /\ gGroups[i].status =
                   determineOverallStatus(StateOfMember(gGroups[i].opentofu),
                                          StateOfMember(gGroups[i].ansible))
            /\ gGroups[i].status # "Unknown"

\* the opentofu unit was attached after the ansible unit, and the status counts both
C28_Witness ==
    /\ gDone
    /\ \E i \in DOMAIN gGroups :
         /\ gGroups[i].opentofu # <<>>
         /\ gGroups[i].ansible # <<>>
         /\ \E j, k \in DOMAIN gStacks :
              /\ j < k
              /\ gStacks[j].id = gGroups[i].ansible[1].id
              /\ gStacks[k].id = gGroups[i].opentofu[1].id
         /\ gGroups[i].status = "Ready"

\* the three rules of the key derivation, written as decompositions of the name
AllAlnum(s) == \A i \in 1..Len(s) : s[i] \in AlnumSet

\* name = <anything> Blueprint-<token>, the token alphanumeric and not empty
BlueprintTokens(name) ==
    { From(name, n) : n \in { m \in 2..Len(name) :
        /\ AllAlnum(From(name, m))
        /\ m > Len(sBlueprintDash)
        /\ SubSeq(name, m - Len(sBlueprintDash), m - 1) = sBlueprintDash } }

\* name = <base>-<role><suffix>, the role word in any letter case, the suffix empty
\* or starting with a hyphen: the pairs <<base, suffix>>
ManualParses(name) ==
    { << SubSeq(name, 1, i - 1), From(name, i + 1 + w) >> :
        <<i, w>> \in { p \in (1..Len(name)) \X { Len(sopentofu), Len(sansible) } :
            /\ name[p[1]] = "-"
            /\ p[1] + p[2] <= Len(name)
            /\ toLowerCase(SubSeq(name, p[1] + 1, p[1] + p[2])) \in { sopentofu, sansible }
            /\ (p[1] + p[2] = Len(name) \/ name[p[1] + p[2] + 1] = "-") } }

\* the parse a lazy (.*?) finds: the one with the shortest base
FirstManualParse(name) ==
    LET parses == ManualParses(name)
    IN  CHOOSE p \in parses : \A q \in parses : Len(p[1]) <= Len(q[1])

OnlyAlnumOf(s) == SelectSeq(s, LAMBDA c : c \in AlnumSet)

ExpectedKey(name) ==
    LET tokens == BlueprintTokens(name)
        parse  == FirstManualParse(name)
    IN  IF tokens # {} THEN CHOOSE t \in tokens : TRUE
        ELSE IF ManualParses(name) # {} THEN OnlyAlnumOf(parse[1] \o parse[2])
        ELSE OnlyAlnumOf(name)

ExpectedManual(name) == BlueprintTokens(name) = {}

\* key and flag the rules give each name of the catalogue, by the id of its unit
ExpectedKeys == [ i \in DOMAIN GroupCatalogue |-> ExpectedKey(GroupCatalogue[i].name) ]

ExpectedManuals == [ i \in DOMAIN GroupCatalogue |-> ExpectedManual(GroupCatalogue[i].name) ]

\* C29: the key of each unit follows the first rule that matches its name: the
\* token of a name ending in Blueprint-<alphanumeric token>, not manual, also when
\* the name holds a role marker; else, for <base>-(Opentofu|Ansible)(-<suffix>)? in
\* any letter case, base and suffix without their non-alphanumeric characters,
\* manual; else the name without its non-alphanumeric characters, manual.  The
\* group a key first creates carries that key and that flag.
C29_KeyByFirstMatchingRule ==
    gDone =>
        /\ \A k \in DOMAIN gStacks :
             LET key == ExpectedKeys[gStacks[k].id]
             IN  /\ GroupKeyOf(gStacks[k].name) = key
                 /\ IsManualOf(gStacks[k].name) = ExpectedManuals[gStacks[k].id]
                 /\ key # <<>> => \E i \in DOMAIN gGroups : gGroups[i].id = key
        /\ \A i \in DOMAIN gGroups :
             LET first == gStacks[SetMin({ k \in DOMAIN gStacks :
                                             ExpectedKeys[gStacks[k].id] = gGroups[i].id })]
             IN  gGroups[i].isManual = ExpectedManuals[first.id]

\* one unit for each rule, the first with a role marker in front of its token
C29_Witness ==
    /\ gDone
    /\ \E a, b, c \in DOMAIN gStacks :
         /\ BlueprintTokens(gStacks[a].name) # {} /\ ManualParses(gStacks[a].name) # {}
         /\ BlueprintTokens(gStacks[b].name) = {} /\ ManualParses(gStacks[b].name) # {}
         /\ BlueprintTokens(gStacks[c].name) = {} /\ ManualParses(gStacks[c].name) = {}
    /\ Len(gGroups) = 3

(***************************************************************************)
(* spaceliftQuery, as the deployment invokes it                            *)
(***************************************************************************)
\* the invocations of spaceliftQuery of one deployment, in program order
Invocations == << "blueprint", "create1", "create2", "create3" >>

ExchangesOf(step) ==
    { i \in DOMAIN dpCalls : dpCalls[i].step = step /\ dpCalls[i].op = "apiKeyUser" }

RequestsOf(step) ==
    { i \in DOMAIN dpCalls : dpCalls[i].step = step /\ dpCalls[i].op # "apiKeyUser" }

\* the invocation has thrown: its exchange or its request has failed
Raised(step) ==
    \E i \in ExchangesOf(step) \cup RequestsOf(step) : dpCalls[i].outcome = "error"

\* the invocation has returned response.data.data to the handler
Returned(step) ==
    \/ step = "blueprint" /\ dpStep \in { "create1", "create2", "create3" }
    \/ step = dpStep /\ dpResponse # <<>> /\ dpResponse[1].success

\* C30: an invocation of spaceliftQuery posts at most one operation request,
\* after at most one credential exchange, which then has succeeded; once its
\* exchange or its request has failed it posts nothing more and the failure is
\* with the caller (which has gone on to its next invocation or has replied 500);
\* and it returns data only when its request was answered without errors.
C30_OneRequestNoRetry ==
    \A n \in DOMAIN Invocations :
        LET step == Invocations[n]
        IN  /\ Cardinality(RequestsOf(step)) <= 1
            /\ Cardinality(ExchangesOf(step)) <= 1
            /\ \A e \in ExchangesOf(step) : \A r \in RequestsOf(step) :
                   e < r /\ dpCalls[e].outcome = "ok"
            /\ Raised(step) =>
                   /\ \A i \in DOMAIN dpCalls : dpCalls[i].step = step =>
                          dpCalls[i].outcome # "pending"
                   /\ ~Returned(step)
                   /\ \/ dpStep # step
                      \/ dpResponse # <<>> /\ dpResponse[1].status = 500
            /\ Returned(step) =>
                   \E r \in RequestsOf(step) : dpCalls[r].outcome = "ok"

\* the first creation request came back with an error and the caller has started
\* its next invocation, the token having been exchanged once at the very start
C30_Witness ==
    /\ dpStep = "create2"
    /\ Len(dpCalls) = 4
    /\ dpCalls[1].op = "apiKeyUser"
    /\ dpCalls[3].step = "create1"
    /\ dpCalls[3].outcome = "error"
    /\ dpCalls[4].step = "create2"

(***************************************************************************)
(* Further properties of getJWTToken                                       *)
(***************************************************************************)
\* this step is the failure of the exchange of caller c, rethrown to the caller
FailsFor(c) ==
    /\ callers[c].pc = "awaitExchange"
    /\ callers'[c].pc = "idle"
    /\ lastEvent' # <<>>
    /\ lastEvent'[1].kind = "fail"
    /\ lastEvent'[1].caller = c

\* this step is a call of getJWTToken up to its return or its first await
Calls == jwtCalls' = jwtCalls + 1

\* C31: when the exchange of a call fails, the call ends there: it had posted that
\* one exchange and posts no other, and currentJWT and jwtExpiry are what they were
\* before the failure, so nothing partial is cached; a later call that finds no
\* valid credential posts a fresh exchange, and one that is answered from the cache
\* gets a credential that a successful exchange has stored.
C31_FailedExchangeLeavesCache ==
    /\ [][ \A c \in Callers : FailsFor(c) =>
             /\ lastEvent'[1].exchange = callers[c].exchange
             /\ callers'[c].exchange = 0
             /\ exchanges' = exchanges
             /\ currentJWT' = currentJWT
             /\ jwtExpiry' = jwtExpiry
             /\ stores' = stores ]_vars
    /\ [][ (Calls /\ lastEvent # <<>> /\ lastEvent[1].kind = "fail") =>
             IF currentJWT # 0 /\ now < jwtExpiry
             THEN /\ lastEvent'[1].kind = "hit"
                  /\ \E i \in DOMAIN stores : stores[i].value = lastEvent'[1].value
             ELSE /\ lastEvent'[1].kind = "issue"
                  /\ exchanges' = exchanges + 1 ]_vars

\* an exchange has failed while the cache holds the credential another exchange
\* stored
C31_Witness ==
    /\ lastEvent # <<>>
    /\ lastEvent[1].kind = "fail"
    /\ Len(stores) = 1
    /\ currentJWT = stores[1].value
    /\ jwtExpiry = stores[1].at + TokenLifetime

\* C32: a call is answered from the cache, without an exchange, if and only if a
\* credential is cached and the clock is strictly before the stored expiry, and
\* posts an exchange otherwise; a response is stored with the expiry of its storing
\* time plus fifty minutes; hence no call is handed a credential at or after the
\* expiry stored with that credential.
C32_CachedIffBeforeExpiry ==
    /\ [][ Calls =>
             IF currentJWT # 0 /\ jwtExpiry # 0 /\ now < jwtExpiry
             THEN /\ lastEvent'[1].kind = "hit"
                  /\ lastEvent'[1].value = currentJWT
                  /\ exchanges' = exchanges
             ELSE /\ lastEvent'[1].kind = "issue"
                  /\ exchanges' = exchanges + 1 ]_vars
    /\ [][ Len(stores') = Len(stores) + 1 =>
             /\ currentJWT' = stores'[Len(stores')].value
             /\ jwtExpiry' = now + TokenLifetime
             /\ stores'[Len(stores')].at = now
             /\ lastEvent'[1] = stores'[Len(stores')] ]_vars
    /\ [] ((lastEvent # <<>> /\ lastEvent[1].kind \in { "hit", "store" }) =>
             \A i \in DOMAIN stores :
                 stores[i].value = lastEvent[1].value =>
                     lastEvent[1].at < stores[i].at + TokenLifetime)

\* a call made at the very instant the cached credential expires posts an exchange
C32_Witness ==
    /\ lastEvent # <<>>
    /\ lastEvent[1].kind = "issue"
    /\ currentJWT # 0
    /\ lastEvent[1].at = jwtExpiry

(***************************************************************************)
(* The log-fetch and save handlers                                         *)
(***************************************************************************)
\* the detailed query of the log-fetch handler raised an error reported by the
\* orchestrator, and the handler has replied
DetailedQueryRaised ==
    /\ rdKind = "logs"
    /\ rdPc = "done"
    /\ rdCalls[1].op = "GetStackWithRuns"
    /\ rdCalls[1].outcome = "raised"

\* C33: whenever the detailed (runs) query of the log-fetch operation raises an
\* error reported by the orchestrator, the handler issues the reduced-field stack
\* query; the reply is a success: true envelope if that query returns the stack,
\* and a 500 failure envelope if it fails.
C33_FallsBackToReducedQuery ==
    DetailedQueryRaised =>
        /\ Len(rdCalls) = 2
        /\ rdCalls[2].op = "GetBasicStack"
        /\ (rdCalls[2].outcome = "returned" /\ RequestedUnits # {})
              => rdResponse[1].success
        /\ rdCalls[2].outcome = "raised"
              => (rdResponse[1].status = 500 /\ ~rdResponse[1].success)

(***************************************************************************)
(* The attempts of the deployment                                          *)
(***************************************************************************)
\* the creation mutations posted so far, in the order of their posting
Creations == SelectSeq(dpCalls, LAMBDA call : call.op = "blueprintCreateStack")

\* the decimal numeral v denotes n
RECURSIVE Denotes(_, _)
Denotes(v, n) ==
    IF Len(v) = 1 THEN n < 10 /\ v[1] = DigitOf(n)
    ELSE /\ Len(v) > 1
         /\ v[Len(v)] = DigitOf(n % 10)
         /\ Denotes(SubSeq(v, 1, Len(v) - 1), n \div 10)

\* the four declared inputs, with the values of the request
DeclaredInputs(inputs) ==
    /\ Len(inputs) >= 4
    /\ inputs[1] = [ id |-> "instance_type", value |-> dpBody.instanceType[1] ]
    /\ inputs[2] = [ id |-> "s3_bucket", value |-> dpBody.s3Bucket[1] ]
    /\ inputs[3] = [ id |-> "motd", value |-> dpBody.motd[1] ]
    /\ inputs[4].id = "max_players"
    /\ Denotes(inputs[4].value, dpBody.maxPlayers[1])

\* the inputs of the k-th attempt: the declared ones; then also the fixed space;
\* then also the space root
AttemptInputs(k, inputs) ==
    /\ DeclaredInputs(inputs)
    /\ k = 1 => Len(inputs) = 4
    /\ k = 2 => /\ Len(inputs) = 5
                /\ inputs[5] = [ id |-> "space_id",
                                 value |-> "opentofu-01JB2XV5E3ZR3NDTKCN80KS6RH" ]
    /\ k = 3 => /\ Len(inputs) = 5
                /\ inputs[5] = [ id |-> "space_id", value |-> "root" ]

\* C34: a valid deploy request posts the creation mutation at most three times,
\* one after the failure of the other: with the declared inputs, then with the
\* fixed space id added, then with the space root.  It stops at the first attempt
\* that succeeds and replies with the stack ids of the environment that attempt
\* created; when all three have failed it replies 500 with the error message of
\* the third.
C34_ThreeAttemptsInOrder ==
    /\ Len(Creations) <= 3
    /\ \A k \in DOMAIN Creations :
         /\ AttemptInputs(k, Creations[k].variables[1].templateInputs)
         /\ \A j \in 1..(k - 1) : Creations[j].outcome = "error"
         /\ Creations[k].outcome = "ok" =>
              /\ dpCalls[Len(dpCalls)] = Creations[k]
              /\ DeployReplied
              /\ dpResponse[1].success
              /\ dpCreated # <<>>
              /\ dpCreated[Len(dpCreated)].step = Creations[k].step
              /\ dpResponse[1].allStackIds = dpCreated[Len(dpCreated)].stackIds
              /\ dpResponse[1].stackId = dpCreated[Len(dpCreated)].stackIds[1]
    /\ (Len(Creations) = 3 /\ Creations[3].outcome = "error") =>
         /\ DeployReplied
         /\ dpResponse[1].status = 500
         /\ ~dpResponse[1].success
         /\ dpResponse[1].error = Creations[3].error
    /\ (DeployReplied /\ dpResponse[1].success) =>
         \E k \in DOMAIN Creations : Creations[k].outcome = "ok"

\* the third attempt has failed in transport after two attempts that the
\* orchestrator refused, and the request is answered
C34_Witness ==
    /\ DeployReplied
    /\ Len(Creations) = 3
    /\ Creations[1].error = ErrorMessage
    /\ Creations[2].error = ErrorMessage
    /\ Creations[3].error = TransportErrorMessage
    /\ dpResponse[1].error = TransportErrorMessage

\* C35: a single deploy request creates at most one environment at the
\* orchestrator, also when a creation that the orchestrator applied is reported
\* to the handler as failed.
C35_AtMostOneEnvironment == Len(dpCreated) <= 1

(***************************************************************************)
(* The targets of the mutating calls                                       *)
(***************************************************************************)
\* the unit of the account with this id carries the label minesible
LabelledIn(units, id) == \E i \in DOMAIN units : units[i].id = id /\ HasMinesibleLabel(units[i])

\* C36: every stack destroy and every save-task trigger that a teardown or a save
\* request issues has for target a unit that carries the label minesible, the units
\* resolved by name in group mode and in the save operation included.
C36_MutationsTargetLabelledUnits ==
    /\ \A i \in MutatingCalls : LabelledIn(stacks, calls[i].id)
    /\ \A i \in DOMAIN rdCalls :
         rdCalls[i].kind \in { "stackDelete", "taskTrigger" } =>
             LabelledIn(account, rdCalls[i].target)

(***************************************************************************)
(* Destroy mutations per unit                                              *)
(***************************************************************************)
\* C37: within one teardown request no unit id receives more than one destroy
\* mutation: the configuration-role and the provisioning-role member of the group
\* mode, and the dependent and the target of the direct mode, are distinct units.
C37_NoUnitDestroyedTwice ==
    /\ \A i, j \in DestroyCalls : i # j => calls[i].id # calls[j].id
    /\ (GroupMode /\ BothResolved) => ansibleStack[1].id # openTofuStack[1].id
    /\ (DirectMode /\ ansibleStack # <<>>) => ansibleStack[1].id # stackResult[1].id

(***************************************************************************)
(* Two teardown requests at once                                           *)
(***************************************************************************)
\* the destroy mutations that either request has issued for the unit
DestroysOfUnit(id) ==
    Cardinality({ i \in DOMAIN calls : IsDestroyOf(calls[i], id) })
    + (IF other = <<>> THEN 0
       ELSE Cardinality({ i \in DOMAIN other[1].calls : IsDestroyOf(other[1].calls[i], id) }))

\* this step is the running handler issuing a call
IssuesCall == running' = running /\ Len(calls') = Len(calls) + 1

\* C38: when two teardown requests for the same environment run at once, each unit
\* of the environment receives at most one destroy mutation in total, and no
\* save-world task is triggered on a unit for which the other request has already
\* issued a destroy mutation.
C38_ConcurrentTeardownsDoNotOverlap ==
    /\ [](\A i \in DOMAIN stacks : DestroysOfUnit(stacks[i].id) <= 1)
    /\ [][ (IssuesCall /\ calls'[Len(calls')].op = "taskTrigger") =>
             \A i \in DOMAIN other[1].calls :
                 ~IsDestroyOf(other[1].calls[i], calls'[Len(calls')].id) ]_vars

(***************************************************************************)
(* What the read and save handlers ask of the orchestrator                 *)
(***************************************************************************)
CallsOfKind(kind) == { i \in DOMAIN rdCalls : rdCalls[i].kind = kind }

\* every call of the request is a query, but for the task triggers
QueriesAndTriggersOnly ==
    \A i \in DOMAIN rdCalls :
        /\ rdCalls[i].kind \in { "query", "taskTrigger" }
        /\ rdCalls[i].op \notin { "stackDelete", "blueprintCreateStack" }

ReadKinds == { "list", "get", "logs" }

\* C39 as stated: the list, get and log-fetch handlers issue queries only, no
\* destroy, no task trigger and no creation; a save request issues exactly one task
\* trigger and no destroy or creation.
C39_ReadsQueryOnlySaveTriggersOnce ==
    rdPc = "done" =>
        /\ QueriesAndTriggersOnly
        /\ rdKind \in ReadKinds => CallsOfKind("taskTrigger") = {}
        /\ rdKind = "save" => Cardinality(CallsOfKind("taskTrigger")) = 1

\* C39 amended: ... a save request issues at most one task trigger and no destroy
\* or creation: exactly one when it replies success: true or fails at the trigger
\* itself, always as its third and last call, and none when its target or the
\* Ansible stack is not found or one of its two queries fails.
C39_ReadsQueryOnlySaveTriggersAtMostOnce ==
    /\ QueriesAndTriggersOnly
    /\ rdKind \in ReadKinds => CallsOfKind("taskTrigger") = {}
    /\ rdKind = "save" =>
         /\ CallsOfKind("taskTrigger") \subseteq { 3 }
         /\ Len(rdCalls) <= 3
         /\ (rdPc = "done" /\ rdResponse[1].success) => CallsOfKind("taskTrigger") = { 3 }
         /\ (rdPc = "done" /\ rdResponse[1].status = 404) => CallsOfKind("taskTrigger") = {}
         /\ (rdPc = "done" /\ rdResponse[1].status = 500) =>
              /\ rdCalls[Len(rdCalls)].outcome = "raised" \/ rdResponse[1].error = TypeErrorMessage
              /\ CallsOfKind("taskTrigger") = { 3 } <=> Len(rdCalls) = 3

\* a save request has been answered with success after two queries and one trigger
C39_Witness ==
    /\ rdKind = "save"
    /\ rdPc = "done"
    /\ rdResponse[1].success
    /\ Len(rdCalls) = 3
    /\ rdCalls[3].kind = "taskTrigger"
    /\ rdCalls[3].outcome = "returned"

====
